---- MODULE Spec2Model ----
(***************************************************************************)
(* MeshStatic-Hybrid: the mesh packet engine (coordinator, repeater),      *)
(* its routing table, and the ChaCha20-Poly1305 layer, as state machines.  *)
(*                                                                         *)
(* 32-bit machine words (uint32_t) are pairs <<hi, lo>> of 16-bit halves,  *)
(* so that arithmetic modulo 2^32 keeps its width.  Bytes are 0..255.      *)
(* A MAC address is a tuple of six bytes.                                  *)
(***************************************************************************)
EXTENDS Integers, Sequences, FiniteSets, Bags, TLC

VARIABLES
    millis,            \* the millisecond clock, a 32-bit word
    routing_table,     \* coordinator: routing_table[0 .. routing_table_size-1]
    last_save,         \* coordinator: update_routing_table's static last_save
    prefs,             \* coordinator: the persisted routing_count / routing_table
    packets_received,  \* coordinator: network_state.packets_received
    rx,                \* the frame handed to the last receive callback
    handled,           \* local handlers invoked by the last receive callback
    sent,              \* esp_now_send calls made by the last receive callback
    acked,             \* send_acknowledgment calls made by the last receive callback
    seen_log,          \* history: (node, src, packet_id, time) of received frames
    loop_timers,       \* coordinator: loop's static last_heartbeat, last_cleanup, ...
    table_op,          \* history: the last routing table operation, and how many ran
    originated,        \* history: the packets the nodes originated, in order
    call,              \* one call of a key, nonce or comparison function
    race,              \* the routing table as two tasks and a reader step through it
    net,               \* a network of relays: the frames on the air
    queue,             \* a circular queue of utils.c and the calls made on it
    aead               \* the ChaCha20-Poly1305 exchange: context, buffers, position

engineVars == <<millis, routing_table, last_save, prefs, packets_received,
                rx, handled, sent, acked, seen_log, loop_timers, table_op,
                originated, call, race, net, queue>>

\* what the packet engine and the table sweep leave alone
sideVars == <<originated, call, race, net, queue>>

vars == <<engineVars, aead>>

(***************************************************************************)
(* Bounds of the model.                                                    *)
(***************************************************************************)
MaxFrames == 2      \* receive callbacks explored per behaviour
MaxTicks == 1       \* clock advances explored per behaviour
TickMs == 31000     \* milliseconds per clock advance

(***************************************************************************)
(* 32-bit words.                                                           *)
(***************************************************************************)
Half == 256 * 256

U32(n) == <<n \div Half, n % Half>>

Add32(a, b) ==
    LET lo == a[2] + b[2]
        hi == a[1] + b[1] + (lo \div Half)
    IN  <<hi % Half, lo % Half>>

Sub32(a, b) ==
    LET lo == a[2] - b[2]
        borrow == IF lo < 0 THEN 1 ELSE 0
        hi == a[1] - b[1] - borrow
    IN  <<(hi + Half) % Half, (lo + Half) % Half>>

Gt32(a, b) == a[1] > b[1] \/ (a[1] = b[1] /\ a[2] > b[2])

\* a / d for a 32-bit a and a divisor d < 2^15
Div32(a, d) ==
    LET qhi == a[1] \div d
        rem == (a[1] % d) * Half + a[2]
    IN  <<qhi, rem \div d>>

(***************************************************************************)
(* mesh_protocol.h                                                         *)
(***************************************************************************)
MESH_NETWORK_ID == 64035
PROTOCOL_VERSION == 1
DEFAULT_TTL == 7
\* sizeof(MeshPacketHeader), packed
SizeofMeshPacketHeader == 2 + 1 + 1 + 4 + 6 + 6 + 6 + 1 + 1 + 2 + 180

BROADCAST_MAC == <<255, 255, 255, 255, 255, 255>>

MSG_DATA_SENSOR == 1
MSG_DATA_ACTUATOR == 2
MSG_CMD_SET == 3
MSG_CMD_GET == 4
MSG_ROUTING_UPDATE == 5
MSG_HEARTBEAT == 6
MSG_DISCOVERY == 7
MSG_CMD_GROUP == 8
MSG_EVENT_BROADCAST == 9
MSG_DEVICE_STATE_UPDATE == 10
MSG_ACK == 14
MSG_NACK == 15

FLAG_REQUIRE_ACK == 1
FLAG_LOCAL_PROCESS == 2
FLAG_EMERGENCY == 4
FLAG_ENCRYPTED == 8
FLAG_BROADCAST == 64

\* flags & bit, for a one-bit mask
HasFlag(flags, bit) == (flags \div bit) % 2 = 1

\* validate_packet without the ttl check
validate_packet_any_ttl(pkt, len) ==
    /\ len >= SizeofMeshPacketHeader
    /\ pkt.network_id = MESH_NETWORK_ID
    /\ pkt.version = PROTOCOL_VERSION

validate_packet(pkt, len) ==
    /\ len >= SizeofMeshPacketHeader
    /\ pkt.network_id = MESH_NETWORK_ID
    /\ pkt.version = PROTOCOL_VERSION
    /\ pkt.ttl > 0

\* decrement_ttl that leaves the hop count alone
decrement_ttl_keep(pkt) == pkt

decrement_ttl(pkt) ==
    IF pkt.ttl > 0 THEN [pkt EXCEPT !.ttl = pkt.ttl - 1] ELSE pkt

is_broadcast_packet(pkt) == pkt.dst_mac = BROADCAST_MAC

is_for_me(pkt, my_mac) == pkt.dst_mac = my_mac

requires_local_processing(pkt) == HasFlag(pkt.flags, FLAG_LOCAL_PROCESS)

requires_ack(pkt) == HasFlag(pkt.flags, FLAG_REQUIRE_ACK)

is_emergency(pkt) == HasFlag(pkt.flags, FLAG_EMERGENCY)

(***************************************************************************)
(* Addresses and frames the link can deliver.                              *)
(***************************************************************************)
ZERO_MAC == <<0, 0, 0, 0, 0, 0>>
CoordinatorMac == <<2, 0, 0, 0, 0, 192>>   \* the coordinator's self_mac
RepeaterMac == <<2, 0, 0, 0, 0, 82>>       \* the repeater's self_mac
MacA == <<2, 0, 0, 0, 0, 1>>

Packet(nid, ver, ttl, pid, src, dst, hop, type, flags) ==
    [network_id |-> nid, version |-> ver, ttl |-> ttl, packet_id |-> pid,
     src_mac |-> src, dst_mac |-> dst, last_hop_mac |-> hop,
     msg_type |-> type, flags |-> flags, group_id |-> 0, payload |-> <<0>>]

\* message type, flags, and whether the frame's AEAD tag verifies
Kinds ==
    {[type |-> MSG_DATA_SENSOR, flags |-> FLAG_REQUIRE_ACK, tag_ok |-> TRUE],
     [type |-> MSG_DATA_SENSOR, flags |-> FLAG_ENCRYPTED + FLAG_REQUIRE_ACK, tag_ok |-> FALSE],
     [type |-> MSG_CMD_SET, flags |-> 0, tag_ok |-> TRUE],
     [type |-> MSG_CMD_GROUP, flags |-> FLAG_LOCAL_PROCESS, tag_ok |-> TRUE],
     [type |-> MSG_CMD_GET, flags |-> 0, tag_ok |-> TRUE],
     [type |-> MSG_HEARTBEAT, flags |-> 0, tag_ok |-> TRUE],
     [type |-> MSG_DISCOVERY, flags |-> 0, tag_ok |-> TRUE],
     [type |-> MSG_ACK, flags |-> FLAG_REQUIRE_ACK, tag_ok |-> TRUE],
     [type |-> MSG_EVENT_BROADCAST, flags |-> 0, tag_ok |-> TRUE]}

Frame(len, pkt, tag_ok) == [len |-> len, pkt |-> pkt, tag_ok |-> tag_ok]

\* well-formed frames from device A
GoodFrames(self, kinds) ==
    {Frame(SizeofMeshPacketHeader,
           Packet(MESH_NETWORK_ID, PROTOCOL_VERSION, ttl, U32(42), MacA, dst, MacA,
                  k.type, k.flags),
           k.tag_ok) :
        ttl \in {1, 2}, dst \in {self, MacA, BROADCAST_MAC}, k \in kinds}

\* well-formed frames whose source is the broadcast or the all-zero address
OddSourceFrames(self) ==
    {Frame(SizeofMeshPacketHeader,
           Packet(MESH_NETWORK_ID, PROTOCOL_VERSION, 2, U32(43), src, self, src,
                  MSG_DATA_SENSOR, 0),
           TRUE) :
        src \in {BROADCAST_MAC, ZERO_MAC}}

\* frames that decode or validation rejects
BadFrames(self) ==
    LET pkt(nid, ver, ttl) == Packet(nid, ver, ttl, U32(42), MacA, self, MacA,
                                     MSG_DATA_SENSOR, FLAG_REQUIRE_ACK)
    IN  {Frame(SizeofMeshPacketHeader - 1, pkt(MESH_NETWORK_ID, PROTOCOL_VERSION, 2), TRUE),
         Frame(SizeofMeshPacketHeader, pkt(0, PROTOCOL_VERSION, 2), TRUE),
         Frame(SizeofMeshPacketHeader, pkt(MESH_NETWORK_ID, 2, 2), TRUE),
         Frame(SizeofMeshPacketHeader, pkt(MESH_NETWORK_ID, PROTOCOL_VERSION, 0), TRUE)}

CoordinatorFrames ==
    GoodFrames(CoordinatorMac, Kinds) \cup OddSourceFrames(CoordinatorMac)
        \cup BadFrames(CoordinatorMac)

RepeaterFrames ==
    GoodFrames(RepeaterMac, {k \in Kinds : k.type = MSG_DATA_SENSOR /\ k.tag_ok
                                            /\ k.flags = FLAG_REQUIRE_ACK})
        \cup OddSourceFrames(RepeaterMac) \cup BadFrames(RepeaterMac)

\* the link-layer sender the driver reports with a frame
Senders == {RepeaterMac, CoordinatorMac}

(***************************************************************************)
(* Coordinator: routing table.                                             *)
(***************************************************************************)
MAX_ROUTING_ENTRIES == 100

\* index of the entry found by find_routing_entry, 0 for nullptr
find_routing_entry(table, mac) ==
    IF \E i \in 1..Len(table) : table[i].device_mac = mac
    THEN CHOOSE i \in 1..Len(table) :
            /\ table[i].device_mac = mac
            /\ \A j \in 1..(i - 1) : table[j].device_mac # mac
    ELSE 0

\* update_routing_table without the "Routing table full!" return
update_routing_table_unbounded(table, mac, rssi, parent_mac, now) ==
    LET found == find_routing_entry(table, mac)
        fresh == [device_mac |-> mac, parent_mac |-> parent_mac, rssi |-> rssi,
                  last_seen |-> Div32(now, 1000), status |-> 1]
    IN  IF found = 0 THEN Append(table, fresh) ELSE [table EXCEPT ![found] = fresh]

\* update_routing_table that takes every device for a new one
update_routing_table_no_lookup(table, mac, rssi, parent_mac, now) ==
    LET fresh == [device_mac |-> mac, parent_mac |-> parent_mac, rssi |-> rssi,
                  last_seen |-> Div32(now, 1000), status |-> 1]
    IN  IF Len(table) >= MAX_ROUTING_ENTRIES THEN table ELSE Append(table, fresh)

\* the table after update_routing_table(mac, rssi, parent_mac), parent_mac non-null
update_routing_table(table, mac, rssi, parent_mac, now) ==
    LET found == find_routing_entry(table, mac)
        fresh == [device_mac |-> mac, parent_mac |-> parent_mac, rssi |-> rssi,
                  last_seen |-> Div32(now, 1000), status |-> 1]
    IN  IF found = 0
        THEN IF Len(table) >= MAX_ROUTING_ENTRIES THEN table ELSE Append(table, fresh)
        ELSE [table EXCEPT ![found] = fresh]

\* update_routing_table returned at "Routing table full!", before the save
TableFullReturn(table, mac) ==
    find_routing_entry(table, mac) = 0 /\ Len(table) >= MAX_ROUTING_ENTRIES

\* the periodic save at the end of update_routing_table
SaveDue(now, saved) == Gt32(Sub32(now, saved), U32(30000))

handle_heartbeat(table, pkt, now) ==
    LET found == find_routing_entry(table, pkt.src_mac)
    IN  IF found = 0 THEN table
        ELSE [table EXCEPT ![found].last_seen = Div32(now, 1000), ![found].status = 1]

\* route_packet that always hands the packet to the entry's parent
route_packet_parent_only(table, pkt, self) ==
    LET found == find_routing_entry(table, pkt.dst_mac)
    IN  IF found = 0 THEN <<>>
        ELSE <<[to |-> table[found].parent_mac, pkt |-> pkt,
                len |-> SizeofMeshPacketHeader]>>

\* the esp_now_send calls of route_packet -> send_packet
route_packet(table, pkt, self) ==
    LET found == find_routing_entry(table, pkt.dst_mac)
        next_hop == IF table[found].parent_mac = self
                    THEN table[found].device_mac
                    ELSE table[found].parent_mac
    IN  IF found = 0 THEN <<>>
        ELSE <<[to |-> next_hop, pkt |-> pkt, len |-> SizeofMeshPacketHeader]>>

(***************************************************************************)
(* Coordinator: process_mesh_packet.  The result is the table and the      *)
(* calls the function made: local handlers, esp_now_send, ACKs.            *)
(***************************************************************************)
\* the coordinator calls the header's is_for_me / requires_ack under these names
is_packet_for_us(pkt, my_mac) == is_for_me(pkt, my_mac)

requires_acknowledgment(pkt) == requires_ack(pkt)

send_acknowledgment(dst_mac, packet_id) == <<[to |-> dst_mac, packet_id |-> packet_id]>>

process_mesh_packet(table, packet, last_hop_mac, self, now) ==
    LET t1 == update_routing_table(table, packet.src_mac, 0, last_hop_mac, now)
        forus == is_packet_for_us(packet, self)
        p == IF ~forus THEN decrement_ttl(packet) ELSE packet
        type == p.msg_type
        local(h) == [table |-> t1, handled |-> <<h>>, sent |-> <<>>]
        routed == [table |-> t1, handled |-> <<>>, sent |-> route_packet(t1, p, self)]
        dispatch ==
            CASE type = MSG_DATA_SENSOR ->
                    IF forus THEN local("handle_sensor_data") ELSE routed
              [] type = MSG_CMD_SET ->
                    IF forus THEN local("handle_command") ELSE routed
              [] type = MSG_CMD_GROUP ->
                    IF requires_local_processing(p) THEN local("handle_group_command")
                    ELSE IF forus THEN local("handle_group_command")
                    ELSE routed
              [] type = MSG_EVENT_BROADCAST ->
                    [table |-> t1, handled |-> <<"handle_emergency_event">>,
                     sent |-> IF ~forus THEN route_packet(t1, p, self) ELSE <<>>]
              [] type = MSG_HEARTBEAT ->
                    [table |-> handle_heartbeat(t1, p, now),
                     handled |-> <<"handle_heartbeat">>, sent |-> <<>>]
              [] type = MSG_DISCOVERY -> local("handle_discovery")
              [] OTHER -> [table |-> t1, handled |-> <<>>, sent |-> <<>>]
    IN  [table |-> dispatch.table, handled |-> dispatch.handled, sent |-> dispatch.sent,
         acked |-> IF requires_acknowledgment(p) /\ forus
                   THEN send_acknowledgment(p.src_mac, p.packet_id) ELSE <<>>]

(***************************************************************************)
(* The state machine of the mesh engine.                                   *)
(***************************************************************************)
NoFrame == [node |-> "none"]

NoOp == [name |-> "none", heard |-> 0, elapsed |-> 0]

NoCall == [fn |-> "none"]

NoRace == [pc |-> "none"]

NoNet == [air |-> EmptyBag, tx |-> 0]

NoQueue == [capacity |-> 0]

EngineInit ==
    /\ millis = U32(0)
    /\ routing_table = <<>>
    /\ last_save = U32(0)
    /\ prefs = [routing_count |-> 0, routing_table |-> <<>>]
    /\ packets_received = 0
    /\ rx = NoFrame
    /\ handled = <<>>
    /\ sent = <<>>
    /\ acked = <<>>
    /\ seen_log = <<>>
    /\ loop_timers = [last_heartbeat |-> U32(0), last_cleanup |-> U32(0),
                      last_stat_update |-> U32(0), last_send |-> U32(0)]
    /\ table_op = NoOp
    /\ originated = <<>>
    /\ call = NoCall
    /\ net = NoNet
    /\ queue = NoQueue
    /\ race = NoRace

\* no encryption in progress
Init == EngineInit /\ aead = [phase |-> "idle"]

FramesLeft == Len(seen_log) < MaxFrames

\* history: one entry per receive callback; valid tells whether the frame
\* passed the length check and validate_packet
Seen(node, pkt, valid) ==
    Append(seen_log, [node |-> node, valid |-> valid, src_mac |-> pkt.src_mac,
                      packet_id |-> pkt.packet_id, at |-> millis])

\* coordinator on_espnow_recv(mac, data, len): everything but the history
CoordinatorCallback(mac, frame) ==
    /\ packets_received' = packets_received + 1
    /\ rx' = [node |-> "coordinator", mac |-> mac, len |-> frame.len,
              pkt |-> frame.pkt, tag_ok |-> frame.tag_ok]
    /\ IF frame.len < SizeofMeshPacketHeader \/ ~validate_packet(frame.pkt, frame.len)
       THEN /\ handled' = <<>> /\ sent' = <<>> /\ acked' = <<>>
            /\ UNCHANGED <<routing_table, last_save, prefs>>
       ELSE LET r == process_mesh_packet(routing_table, frame.pkt, mac,
                                         CoordinatorMac, millis)
                save == /\ ~TableFullReturn(routing_table, frame.pkt.src_mac)
                        /\ SaveDue(millis, last_save)
                saved == update_routing_table(routing_table, frame.pkt.src_mac, 0, mac, millis)
            IN  /\ routing_table' = r.table
                /\ handled' = r.handled
                /\ sent' = r.sent
                /\ acked' = r.acked
                /\ last_save' = IF save THEN millis ELSE last_save
                /\ prefs' = IF save
                            THEN [routing_count |-> Len(saved), routing_table |-> saved]
                            ELSE prefs

\* the callback where no other task of the model is involved
CoordinatorOnRecv(mac, frame) ==
    /\ CoordinatorCallback(mac, frame)
    /\ UNCHANGED <<millis, loop_timers, sideVars, aead>>

\* coordinator on_espnow_recv(mac, data, len)
CoordinatorRecv(mac, frame) ==
    /\ FramesLeft
    /\ CoordinatorOnRecv(mac, frame)
    /\ seen_log' = Seen("coordinator", frame.pkt,
                        ~(frame.len < SizeofMeshPacketHeader
                          \/ ~validate_packet(frame.pkt, frame.len)))
    /\ UNCHANGED table_op

\* the esp_now_send calls of the repeater's on_espnow_recv at the node self
RepeaterSends(self, frame) ==
    IF frame.len < SizeofMeshPacketHeader \/ ~validate_packet(frame.pkt, frame.len)
    THEN <<>>
    ELSE IF ~is_for_me(frame.pkt, self) /\ frame.pkt.ttl > 1
         THEN <<[to |-> BROADCAST_MAC, pkt |-> decrement_ttl(frame.pkt),
                 len |-> frame.len]>>
         ELSE <<>>

\* repeater on_espnow_recv(mac, data, len)
RepeaterRecv(mac, frame) ==
    /\ FramesLeft
    /\ rx' = [node |-> "repeater", mac |-> mac, len |-> frame.len,
              pkt |-> frame.pkt, tag_ok |-> frame.tag_ok]
    /\ IF frame.len < SizeofMeshPacketHeader \/ ~validate_packet(frame.pkt, frame.len)
       THEN /\ sent' = <<>>
            /\ seen_log' = Seen("repeater", frame.pkt, FALSE)
       ELSE /\ sent' = IF ~is_for_me(frame.pkt, RepeaterMac) /\ frame.pkt.ttl > 1
                       THEN <<[to |-> BROADCAST_MAC, pkt |-> decrement_ttl(frame.pkt),
                               len |-> frame.len]>>
                       ELSE <<>>
            /\ seen_log' = Seen("repeater", frame.pkt, TRUE)
    /\ handled' = <<>>
    /\ acked' = <<>>
    /\ UNCHANGED <<millis, routing_table, last_save, prefs, packets_received,
                   loop_timers, table_op, sideVars, aead>>

\* time passes between two callbacks
Tick ==
    /\ Gt32(U32(MaxTicks * TickMs), millis)
    /\ millis' = Add32(millis, U32(TickMs))
    /\ UNCHANGED <<routing_table, last_save, prefs, packets_received,
                   rx, handled, sent, acked, seen_log, loop_timers, table_op,
                   sideVars, aead>>

Next ==
    \/ \E mac \in Senders, frame \in CoordinatorFrames : CoordinatorRecv(mac, frame)
    \/ \E frame \in RepeaterFrames : RepeaterRecv(MacA, frame)
    \/ Tick

Spec == Init /\ [][Next]_vars

(***************************************************************************)
(* Bit operations on machine words.  A uint8_t is 0..255, a uint32_t is a  *)
(* pair <<hi, lo>> of 16-bit halves, a uint64_t is a 4-tuple of 16-bit     *)
(* limbs, most significant first.                                          *)
(***************************************************************************)
\* Body applied to the value of e, which is computed once
WithValue(e, Body(_)) == CHOOSE r \in {Body(v) : v \in {e}} : TRUE

RECURSIVE BitXor(_, _, _)
BitXor(a, b, bits) ==
    IF bits = 0 THEN 0
    ELSE ((a + b) % 2) + 2 * BitXor(a \div 2, b \div 2, bits - 1)

RECURSIVE BitOr(_, _, _)
BitOr(a, b, bits) ==
    IF bits = 0 THEN 0
    ELSE (IF a % 2 = 1 \/ b % 2 = 1 THEN 1 ELSE 0) + 2 * BitOr(a \div 2, b \div 2, bits - 1)

RECURSIVE BitAnd(_, _, _)
BitAnd(a, b, bits) ==
    IF bits = 0 THEN 0
    ELSE (IF a % 2 = 1 /\ b % 2 = 1 THEN 1 ELSE 0) + 2 * BitAnd(a \div 2, b \div 2, bits - 1)

\* a ^ b, a | b and a & b on 4-bit digits, tabulated
XorNibble == [a \in 0..15 |-> [b \in 0..15 |-> BitXor(a, b, 4)]]

OrNibble == [a \in 0..15 |-> [b \in 0..15 |-> BitOr(a, b, 4)]]

AndNibble == [a \in 0..15 |-> [b \in 0..15 |-> BitAnd(a, b, 4)]]

Xor8(a, b) == XorNibble[a % 16][b % 16] + 16 * XorNibble[a \div 16][b \div 16]

Or8(a, b) == OrNibble[a % 16][b % 16] + 16 * OrNibble[a \div 16][b \div 16]

Xor16(a, b) == Xor8(a % 256, b % 256) + 256 * Xor8(a \div 256, b \div 256)

Or16(a, b) == Or8(a % 256, b % 256) + 256 * Or8(a \div 256, b \div 256)

And8(a, b) == AndNibble[a % 16][b % 16] + 16 * AndNibble[a \div 16][b \div 16]

And16(a, b) == And8(a % 256, b % 256) + 256 * And8(a \div 256, b \div 256)

And32(a, b) == <<And16(a[1], b[1]), And16(a[2], b[2])>>

\* ~a
Not32(a) == <<Half - 1 - a[1], Half - 1 - a[2]>>

Xor32(a, b) == <<Xor16(a[1], b[1]), Xor16(a[2], b[2])>>

Pow2(n) == 2 ^ n

\* x << n modulo 2^32, 0 <= n < 32
Shl32(x, n) ==
    IF n >= 16
    THEN <<(x[2] * Pow2(n - 16)) % Half, 0>>
    ELSE <<((x[1] * Pow2(n)) % Half) + (x[2] \div Pow2(16 - n)), (x[2] * Pow2(n)) % Half>>

\* x >> n, 0 <= n < 32
Shr32(x, n) ==
    IF n >= 16
    THEN <<0, x[1] \div Pow2(n - 16)>>
    ELSE <<x[1] \div Pow2(n), ((x[1] % Pow2(n)) * Pow2(16 - n)) + (x[2] \div Pow2(n))>>

Or32(a, b) == <<Or16(a[1], b[1]), Or16(a[2], b[2])>>

\* the little-endian load ((uint32_t)p[0] << 0) | ... | ((uint32_t)p[3] << 24),
\* p[0] being bytes[at]
Load32(bytes, at) ==
    <<bytes[at + 3] * 256 + bytes[at + 2], bytes[at + 1] * 256 + bytes[at]>>

\* the bytes (uint8_t)(w >> 0), (w >> 8), (w >> 16), (w >> 24)
Store32(w) == <<w[2] % 256, w[2] \div 256, w[1] % 256, w[1] \div 256>>

(***************************************************************************)
(* chacha20_poly1305.c: ChaCha20                                           *)
(***************************************************************************)
CHACHA20_KEY_SIZE == 32
CHACHA20_NONCE_SIZE == 12
POLY1305_TAG_SIZE == 16
CHACHA20_BLOCK_SIZE == 64

CHACHA20_CONSTANT0 == <<24944, 30821>>   \* 0x61707865
CHACHA20_CONSTANT1 == <<13088, 25710>>   \* 0x3320646e
CHACHA20_CONSTANT2 == <<31074, 11570>>   \* 0x79622d32
CHACHA20_CONSTANT3 == <<27424, 25972>>   \* 0x6b206574

rotl32(x, n) == Or32(Shl32(x, n), Shr32(x, 32 - n))

\* the quarter round on words a, b, c, d (indices from 1) of the workspace
qr(w, a, b, c, d) ==
    LET a1 == Add32(w[a], w[b])
        d1 == rotl32(Xor32(w[d], a1), 16)
        c1 == Add32(w[c], d1)
        b1 == rotl32(Xor32(w[b], c1), 12)
        a2 == Add32(a1, b1)
        d2 == rotl32(Xor32(d1, a2), 8)
        c2 == Add32(c1, d2)
        b2 == rotl32(Xor32(b1, c2), 7)
    IN  [w EXCEPT ![a] = a2, ![b] = b2, ![c] = c2, ![d] = d2]

chacha20_init_state(key, nonce, counter) ==
    <<CHACHA20_CONSTANT0, CHACHA20_CONSTANT1, CHACHA20_CONSTANT2, CHACHA20_CONSTANT3>>
    \o [i \in 1..8 |-> Load32(key, 4 * (i - 1) + 1)]
    \o <<counter>>
    \o <<Load32(nonce, 1), Load32(nonce, 5), Load32(nonce, 9)>>

\* the quarter rounds of one iteration: the odd round, then the even round
QrOrder ==
    << <<1, 5, 9, 13>>, <<2, 6, 10, 14>>, <<3, 7, 11, 15>>, <<4, 8, 12, 16>>,
       <<1, 6, 11, 16>>, <<2, 7, 12, 13>>, <<3, 8, 9, 14>>, <<4, 5, 10, 15>> >>

\* one iteration of the ten, from its k-th quarter round on
RECURSIVE DoubleRound(_, _)
DoubleRound(w, k) ==
    IF k > Len(QrOrder) THEN w
    ELSE WithValue(qr(w, QrOrder[k][1], QrOrder[k][2], QrOrder[k][3], QrOrder[k][4]),
                   LAMBDA v : DoubleRound(v, k + 1))

\* for (int i = 0; i < 10; i++): n iterations left on workspace w
RECURSIVE Rounds(_, _)
Rounds(w, n) ==
    IF n = 0 THEN w ELSE WithValue(DoubleRound(w, 1), LAMBDA v : Rounds(v, n - 1))

\* the 64 keystream bytes written by chacha20_block; state is left as it was
chacha20_block(state) ==
    WithValue(Rounds(state, 10), LAMBDA workspace :
        [k \in 1..64 |->
            LET i == ((k - 1) \div 4) + 1
            IN  Store32(Add32(workspace[i], state[i]))[((k - 1) % 4) + 1]])

(***************************************************************************)
(* 64-bit arithmetic for Poly1305: a uint64_t is <<l3, l2, l1, l0>>.       *)
(***************************************************************************)
\* (uint64_t)w
To64(w) == <<0, 0, w[1], w[2]>>

\* (uint32_t)x
Lo32(x) == <<x[3], x[4]>>

\* the 16-bit limb of weight 2^(16 j), 0 outside the word
Limb(x, j) == IF j \in 0..3 THEN x[4 - j] ELSE 0

\* the 32-bit product of two 16-bit numbers
Mul16(x, y) ==
    LET t0 == (x % 256) * y
        t1 == (x \div 256) * y
        lo == t0 + (t1 % 256) * 256
    IN  <<(t1 \div 256) + (lo \div Half), lo % Half>>

\* (uint64_t)a * b for 32-bit a, b
Mul32(a, b) ==
    LET p0 == Mul16(a[2], b[2])
        p1 == Mul16(a[2], b[1])
        p2 == Mul16(a[1], b[2])
        p3 == Mul16(a[1], b[1])
        s1 == p0[1] + p1[2] + p2[2]
        s2 == p1[1] + p2[1] + p3[2] + (s1 \div Half)
        s3 == p3[1] + (s2 \div Half)
    IN  <<s3 % Half, s2 % Half, s1 % Half, p0[2]>>

Add64(a, b) ==
    LET s0 == a[4] + b[4]
        s1 == a[3] + b[3] + (s0 \div Half)
        s2 == a[2] + b[2] + (s1 \div Half)
        s3 == a[1] + b[1] + (s2 \div Half)
    IN  <<s3 % Half, s2 % Half, s1 % Half, s0 % Half>>

\* x >> n, 0 <= n < 64
Shr64(x, n) ==
    LET q == n \div 16
        r == n % 16
    IN  [i \in 1..4 |->
            LET j == 4 - i
            IN  (Limb(x, j + q) \div Pow2(r)) + ((Limb(x, j + q + 1) % Pow2(r)) * Pow2(16 - r))]

\* x << n modulo 2^64, 0 <= n < 64
Shl64(x, n) ==
    LET q == n \div 16
        r == n % 16
    IN  [i \in 1..4 |->
            LET j == 4 - i
            IN  ((Limb(x, j - q) * Pow2(r)) % Half) + (Limb(x, j - q - 1) \div Pow2(16 - r))]

Or64(a, b) == [i \in 1..4 |-> Or16(a[i], b[i])]

\* x << n for a shift count that may reach the width of the type: a count of
\* 64 or more is undefined, and a build either yields 0 or uses the count
\* modulo 64
ShlWide(x, n, wide_shift) ==
    IF n < 64 THEN Shl64(x, n)
    ELSE IF wide_shift = "zero" THEN To64(U32(0))
    ELSE Shl64(x, n % 64)

WideShifts == {"zero", "mod64"}

\* the bytes (uint8_t)(f >> 0) ... (uint8_t)(f >> 56)
Store64(f) ==
    <<f[4] % 256, f[4] \div 256, f[3] % 256, f[3] \div 256,
      f[2] % 256, f[2] \div 256, f[1] % 256, f[1] \div 256>>

(***************************************************************************)
(* chacha20_poly1305.c: Poly1305                                           *)
(***************************************************************************)
\* x & 0x3ffffff
Mask26(x) == <<x[1] % 1024, x[2]>>

\* x & 0x0ffffffc, an entry of poly1305_clamp_r
poly1305_clamp_r(x) == <<x[1] % 4096, x[2] - (x[2] % 4)>>

\* the uint32_t product x * 5
Times5(x) == Lo32(Mul32(x, U32(5)))

\* the fields written by poly1305_init; buffer keeps what the memory held
poly1305_init(ctx, key) ==
    [ctx EXCEPT
        !.h = [i \in 1..5 |-> U32(0)],
        !.r = <<poly1305_clamp_r(Load32(key, 1)), poly1305_clamp_r(Load32(key, 5)),
                poly1305_clamp_r(Load32(key, 9)), poly1305_clamp_r(Load32(key, 13)), U32(0)>>,
        !.pad = <<Load32(key, 17), Load32(key, 21), Load32(key, 25), Load32(key, 29)>>,
        !.leftover = 0,
        !.final = 0]

\* h[i+1] += h[i] >> 26; h[i] &= 0x3ffffff
Carry(h, i) ==
    [h EXCEPT ![i + 1] = Add32(h[i + 1], Shr32(h[i], 26)), ![i] = Mask26(h[i])]

\* h0 += (h4 >> 26) * 5; h4 &= 0x3ffffff
Wrap5(h) ==
    [h EXCEPT ![1] = Add32(h[1], Times5(Shr32(h[5], 26))), ![5] = Mask26(h[5])]

\* the k-th statement pair of the carry chain shared by poly1305_blocks and
\* poly1305_final: four carries upward, the wrap of h4 into h0, one carry
ReduceStep(h, k) == IF k <= 4 THEN Carry(h, k) ELSE IF k = 5 THEN Wrap5(h) ELSE Carry(h, 1)

RECURSIVE ReduceFrom(_, _)
ReduceFrom(h, k) ==
    IF k > 6 THEN h ELSE WithValue(ReduceStep(h, k), LAMBDA v : ReduceFrom(v, k + 1))

Reduce(h) == ReduceFrom(h, 1)

Sum5(a, b, c, d, e) == Add64(Add64(Add64(Add64(a, b), c), d), e)

\* t[i+1] += t[i] >> 26 along the five 64-bit sums
RECURSIVE PartialCarry(_, _)
PartialCarry(t, i) ==
    IF i = 5 THEN t
    ELSE WithValue([t EXCEPT ![i + 1] = Add64(t[i + 1], Shr64(t[i], 26))],
                   LAMBDA v : PartialCarry(v, i + 1))

\* h plus the block data[at .. at+15] with its 2^128 bit, in 26-bit limbs
AddBlock(h, data, at) ==
    LET d0 == Load32(data, at)
        d1 == Load32(data, at + 4)
        d2 == Load32(data, at + 8)
        d3 == Load32(data, at + 12)
    IN  <<Add32(h[1], Mask26(d0)),
          Add32(h[2], Mask26(Or32(Shr32(d0, 26), Shl32(d1, 6)))),
          Add32(h[3], Mask26(Or32(Shr32(d1, 20), Shl32(d2, 12)))),
          Add32(h[4], Mask26(Or32(Shr32(d2, 14), Shl32(d3, 18)))),
          Add32(h[5], Or32(Shr32(d3, 8), Shl32(U32(1), 24)))>>

\* the 64-bit sums t0 .. t4 of the products of a by r
Products(a, r) ==
    LET s1 == Times5(r[2])
        s2 == Times5(r[3])
        s3 == Times5(r[4])
        s4 == Times5(r[5])
    IN  <<Sum5(Mul32(a[1], r[1]), Mul32(a[2], s4), Mul32(a[3], s3), Mul32(a[4], s2), Mul32(a[5], s1)),
          Sum5(Mul32(a[1], r[2]), Mul32(a[2], r[1]), Mul32(a[3], s4), Mul32(a[4], s3), Mul32(a[5], s2)),
          Sum5(Mul32(a[1], r[3]), Mul32(a[2], r[2]), Mul32(a[3], r[1]), Mul32(a[4], s4), Mul32(a[5], s3)),
          Sum5(Mul32(a[1], r[4]), Mul32(a[2], r[3]), Mul32(a[3], r[2]), Mul32(a[4], r[1]), Mul32(a[5], s4)),
          Sum5(Mul32(a[1], r[5]), Mul32(a[2], r[4]), Mul32(a[3], r[3]), Mul32(a[4], r[2]), Mul32(a[5], r[1]))>>

\* h_i = (uint32_t)t_i & 0x3ffffff, then h0 += (uint32_t)(t4 >> 26) * 5
Fold(c) ==
    [i \in 1..5 |->
        IF i = 1 THEN Add32(Mask26(Lo32(c[1])), Times5(Lo32(Shr64(c[5], 26))))
        ELSE Mask26(Lo32(c[i]))]

\* one pass of the while loop of poly1305_blocks on data[at .. at+15]
PolyBlock(h, r, data, at) ==
    WithValue(AddBlock(h, data, at), LAMBDA a :
    WithValue(Products(a, r), LAMBDA t :
    WithValue(PartialCarry(t, 1), LAMBDA c :
    WithValue(Fold(c), LAMBDA folded : Reduce(folded)))))

\* while (len >= 16): the accumulator after the whole blocks of data[at ..]
RECURSIVE PolyLoop(_, _, _, _, _)
PolyLoop(h, r, data, at, len) ==
    IF len >= 16
    THEN WithValue(PolyBlock(h, r, data, at),
                   LAMBDA v : PolyLoop(v, r, data, at + 16, len - 16))
    ELSE h

\* ctx is a poly1305_ctx_t, data a byte sequence read from its first byte
poly1305_blocks(ctx, data, len) ==
    [ctx EXCEPT !.h = PolyLoop(ctx.h, ctx.r, data, 1, len)]

\* if (leftover) { buffer[leftover] = 1; zero the rest; poly1305_blocks(buffer, 16) }
AbsorbLeftover(auth_ctx) ==
    IF auth_ctx.leftover # 0
    THEN WithValue([i \in 1..16 |->
                       IF i <= auth_ctx.leftover THEN auth_ctx.buffer[i]
                       ELSE IF i = auth_ctx.leftover + 1 THEN 1 ELSE 0],
                   LAMBDA buffer :
                       poly1305_blocks([auth_ctx EXCEPT !.buffer = buffer], buffer, 16))
    ELSE auth_ctx

\* g = h + 5 - 2^130, limb by limb
MinusP(h) ==
    WithValue(Carry([h EXCEPT ![1] = Add32(h[1], U32(5))], 1), LAMBDA c1 :
    WithValue(Carry(c1, 2), LAMBDA c2 :
    WithValue(Carry(c2, 3), LAMBDA c3 :
    WithValue(Carry(c3, 4), LAMBDA c4 :
        [c4 EXCEPT ![5] = Sub32(c4[5], Shl32(U32(1), 26))]))))

\* (h & mask) | (g & ~mask) with mask = (g4 >> 31) - 1
Select(h, g) ==
    WithValue(Sub32(Shr32(g[5], 31), U32(1)), LAMBDA mask :
        [i \in 1..5 |-> Or32(And32(h[i], mask), And32(g[i], Not32(mask)))])

\* the 16 tag bytes from the selected limbs k and the pad words
TagBytes(k, pad, wide_shift) ==
    LET f1 == Add64(Add64(Add64(Add64(To64(k[1]), Shl64(To64(k[2]), 26)),
                                Shl64(To64(k[3]), 52)),
                          ShlWide(To64(k[4]), 78, wide_shift)),
                    Add64(To64(pad[1]), Shl64(To64(pad[2]), 32)))
        f2 == Add64(Or64(Or64(Or64(Or64(ShlWide(To64(k[5]), 104, wide_shift),
                                        ShlWide(To64(Shr32(k[4], 4)), 80, wide_shift)),
                                   Shl64(To64(Shr32(k[3], 30)), 56)),
                              Shl64(To64(Shr32(k[2], 24)), 32)),
                         Shl64(To64(Shr32(k[1], 20)), 8)),
                    Add64(To64(pad[3]), Shl64(To64(pad[4]), 32)))
    IN  Store64(f1) \o Store64(f2)

\* poly1305_final: the context it leaves and the 16 tag bytes
poly1305_final(auth_ctx, wide_shift) ==
    WithValue(AbsorbLeftover(auth_ctx), LAMBDA after :
    WithValue(Reduce(after.h), LAMBDA h :
    WithValue(MinusP(h), LAMBDA g :
    WithValue(Select(h, g), LAMBDA k :
        [auth_ctx |-> after, tag |-> TagBytes(k, after.pad, wide_shift)]))))

(***************************************************************************)
(* chacha20_poly1305.c: the AEAD functions                                 *)
(***************************************************************************)
\* a chacha20_poly1305_ctx_t whose memory holds the byte g everywhere
UninitCtx(g) ==
    [cipher_ctx |-> [state |-> [i \in 1..16 |-> <<g * 257, g * 257>>],
                     keystream |-> [i \in 1..CHACHA20_BLOCK_SIZE |-> g],
                     position |-> g],
     auth_ctx |-> [r |-> [i \in 1..5 |-> <<g * 257, g * 257>>],
                   h |-> [i \in 1..5 |-> <<g * 257, g * 257>>],
                   pad |-> [i \in 1..4 |-> <<g * 257, g * 257>>],
                   leftover |-> g,
                   buffer |-> [i \in 1..16 |-> g],
                   final |-> g],
     key |-> [i \in 1..CHACHA20_KEY_SIZE |-> g],
     nonce |-> [i \in 1..CHACHA20_NONCE_SIZE |-> g],
     aad_len |-> g,
     ciphertext_len |-> g]

\* chacha20_poly1305_init when the 64-byte write into poly_key[32] does no harm:
\* poly_key holds the first 32 bytes of the block, keystream is not written
chacha20_poly1305_init(ctx, key, nonce) ==
    WithValue(chacha20_init_state(key, nonce, U32(1)), LAMBDA state :
    WithValue(SubSeq(chacha20_block(state), 1, 32), LAMBDA poly_key :
        [ctx EXCEPT
            !.cipher_ctx.state = state,
            !.cipher_ctx.position = 0,
            !.auth_ctx = poly1305_init(ctx.auth_ctx, poly_key),
            !.key = key,
            !.nonce = nonce,
            !.aad_len = 0,
            !.ciphertext_len = 0]))

chacha20_poly1305_aad(ctx, aad, aad_len) ==
    IF aad_len = 0 THEN ctx
    ELSE WithValue(poly1305_blocks(ctx.auth_ctx, aad, aad_len), LAMBDA absorbed :
            [ctx EXCEPT !.auth_ctx = AbsorbLeftover(absorbed),
                        !.aad_len = ctx.aad_len + aad_len])

Min(a, b) == IF a < b THEN a ELSE b

\* if (position >= CHACHA20_BLOCK_SIZE) { chacha20_block(state, keystream); position = 0; }
Refill(cipher_ctx) ==
    IF cipher_ctx.position >= CHACHA20_BLOCK_SIZE
    THEN [cipher_ctx EXCEPT !.keystream = chacha20_block(cipher_ctx.state), !.position = 0]
    ELSE cipher_ctx

\* the while (pos < length) loop of encrypt and decrypt: input ^ keystream
\* into output, from offset pos (counted from 0)
RECURSIVE CipherLoop(_, _, _, _, _)
CipherLoop(cipher_ctx, input, output, pos, length) ==
    IF pos < length
    THEN WithValue(Refill(cipher_ctx), LAMBDA fresh :
         WithValue(Min(CHACHA20_BLOCK_SIZE - fresh.position, length - pos), LAMBDA to_process :
         WithValue([i \in 1..Len(output) |->
                       IF i > pos /\ i <= pos + to_process
                       THEN Xor8(input[i], fresh.keystream[fresh.position + i - pos])
                       ELSE output[i]],
                   LAMBDA written :
                       CipherLoop([fresh EXCEPT !.position = fresh.position + to_process],
                                  input, written, pos + to_process, length))))
    ELSE [cipher_ctx |-> cipher_ctx, output |-> output]

\* length_block: aad_len * 8 and cipher_len * 8, eight little-endian bytes each
LengthBlock(aad_len, cipher_len) ==
    Store64(To64(U32(aad_len * 8))) \o Store64(To64(U32(cipher_len * 8)))

\* the tag over the context's AAD, the ciphertext and the length block
AuthTag(ctx, ciphertext, length, wide_shift) ==
    WithValue(poly1305_blocks(ctx.auth_ctx, ciphertext, length), LAMBDA absorbed :
    WithValue(AbsorbLeftover(absorbed), LAMBDA padded :
    WithValue(poly1305_blocks(padded,
                              LengthBlock(ctx.aad_len, ctx.ciphertext_len + length), 16),
              LAMBDA lengths : poly1305_final(lengths, wide_shift))))

\* ciphertext is the caller's buffer; the result holds the context, the buffer
\* and the tag after the call
chacha20_poly1305_encrypt(ctx, plaintext, ciphertext, length, wide_shift) ==
    WithValue(CipherLoop(ctx.cipher_ctx, plaintext, ciphertext, 0, length), LAMBDA enc :
    WithValue(AuthTag(ctx, enc.output, length, wide_shift), LAMBDA auth :
        [ctx |-> [ctx EXCEPT !.cipher_ctx = enc.cipher_ctx,
                             !.auth_ctx = auth.auth_ctx,
                             !.ciphertext_len = ctx.ciphertext_len + length],
         ciphertext |-> enc.output,
         tag |-> auth.tag]))

\* result |= a[i] ^ b[i] over the first len bytes
RECURSIVE DiffBits(_, _, _)
DiffBits(a, b, len) ==
    IF len = 0 THEN 0 ELSE Or8(DiffBits(a, b, len - 1), Xor8(a[len], b[len]))

constant_time_compare(a, b, len) == DiffBits(a, b, len) = 0

\* verify_ctx and computed_tag when chacha20_poly1305_decrypt returns: the
\* copy of the context after poly1305_final, and the tag after memzero
DecryptLocals(verify_ctx, auth_ctx) ==
    [verify_ctx |-> [verify_ctx EXCEPT !.auth_ctx = auth_ctx],
     computed_tag |-> [i \in 1..POLY1305_TAG_SIZE |-> 0]]

\* a decrypt that runs the cipher loop first and compares the tag afterwards
chacha20_poly1305_decrypt_then_verify(ctx, ciphertext, plaintext, length, tag, wide_shift) ==
    WithValue(AuthTag(ctx, ciphertext, length, wide_shift), LAMBDA auth :
    WithValue(CipherLoop(ctx.cipher_ctx, ciphertext, plaintext, 0, length), LAMBDA dec :
        [ok |-> constant_time_compare(auth.tag, tag, POLY1305_TAG_SIZE),
         ctx |-> [ctx EXCEPT !.cipher_ctx = dec.cipher_ctx,
                             !.ciphertext_len = ctx.ciphertext_len + length],
         plaintext |-> dec.output,
         locals |-> DecryptLocals(ctx, auth.auth_ctx)]))

\* plaintext is the caller's buffer; the tag is computed on the copy verify_ctx;
\* locals are the function's stack variables as they are at the return
chacha20_poly1305_decrypt(ctx, ciphertext, plaintext, length, tag, wide_shift) ==
    WithValue(ctx, LAMBDA verify_ctx :
    WithValue(AuthTag(verify_ctx, ciphertext, length, wide_shift), LAMBDA auth :
        IF ~constant_time_compare(auth.tag, tag, POLY1305_TAG_SIZE)
        THEN [ok |-> FALSE, ctx |-> ctx, plaintext |-> plaintext,
              locals |-> DecryptLocals(verify_ctx, auth.auth_ctx)]
        ELSE WithValue(CipherLoop(ctx.cipher_ctx, ciphertext, plaintext, 0, length),
                       LAMBDA dec :
                 [ok |-> TRUE,
                  ctx |-> [ctx EXCEPT !.cipher_ctx = dec.cipher_ctx,
                                      !.ciphertext_len = ctx.ciphertext_len + length],
                  plaintext |-> dec.output,
                  locals |-> DecryptLocals(verify_ctx, auth.auth_ctx)])))

\* secure_wipe(&ctx, sizeof(ctx))
secure_wipe == UninitCtx(0)

(***************************************************************************)
(* One encrypted exchange: mesh_encrypt_packet at the sender, the frame on *)
(* the air, mesh_decrypt_packet at the receiver.  Each step is one call of *)
(* the AEAD interface, in the order the mesh_* functions make them.        *)
(***************************************************************************)
PartialLen == 17    \* a payload length that ends in a partial 16-byte block
LongLen == 70       \* a payload length beyond one keystream block

SessionKey == [i \in 1..CHACHA20_KEY_SIZE |-> i - 1]

PacketNonce == <<0, 0, 0, 42, 2, 0, 0, 0, 0, 1, 0, 0>>

\* the packed header fields before payload: the bytes given as AAD
HeaderLen == 2 + 1 + 1 + 4 + 6 + 6 + 6 + 1 + 1 + 2

Plaintexts == {[i \in 1..n |-> (7 * i + 3) % 256] : n \in {0, 1, PartialLen, LongLen}}

Aads == {<<>>, [i \in 1..HeaderLen |-> (11 * i) % 256]}

\* what the stack memory under a fresh context may hold
StackBytes == {0, 165}

\* what the 32 bytes written past poly_key[32] do
Overflows == {"spill", "fault"}

\* no stack frame of chacha20_poly1305_decrypt has been left behind
NoLocals == DecryptLocals(secure_wipe, secure_wipe.auth_ctx)

AeadStarts ==
    {[phase |-> "enc_start", wide_shift |-> w, plaintext |-> pt, aad |-> ad,
      ctx |-> secure_wipe, ciphertext |-> <<>>, tag |-> <<>>,
      tamper |-> [field |-> "none", at |-> 0], output |-> <<>>, result |-> "none",
      locals |-> NoLocals] :
        w \in WideShifts, pt \in Plaintexts, ad \in Aads}

InitAead == EngineInit /\ aead \in AeadStarts

\* chacha20_poly1305_init on a context freshly allocated on the stack
AeadInit(g, overflow) ==
    /\ aead.phase \in {"enc_start", "dec_start"}
    /\ IF overflow = "fault"
       THEN aead' = [aead EXCEPT !.phase = "fault"]
       ELSE \E ctx \in {chacha20_poly1305_init(UninitCtx(g), SessionKey, PacketNonce)} :
                aead' = [aead EXCEPT
                           !.ctx = ctx,
                           !.phase = IF aead.phase = "enc_start" THEN "enc_init" ELSE "dec_init"]
    /\ UNCHANGED engineVars

\* if (aad_len > 0) chacha20_poly1305_aad(&ctx, aad, aad_len)
AeadAad ==
    /\ aead.phase \in {"enc_init", "dec_init"}
    /\ Len(aead.aad) > 0
    /\ \E ctx \in {chacha20_poly1305_aad(aead.ctx, aead.aad, Len(aead.aad))} :
           aead' = [aead EXCEPT
                      !.ctx = ctx,
                      !.phase = IF aead.phase = "enc_init" THEN "enc_aad" ELSE "dec_aad"]
    /\ UNCHANGED engineVars

AadDone(side) ==
    \/ aead.phase = side \o "_aad"
    \/ aead.phase = side \o "_init" /\ Len(aead.aad) = 0

\* chacha20_poly1305_encrypt(&ctx, plaintext, ciphertext, plaintext_len, tag)
AeadEncrypt ==
    /\ AadDone("enc")
    /\ \E r \in {chacha20_poly1305_encrypt(aead.ctx, aead.plaintext,
                                            [i \in 1..Len(aead.plaintext) |-> 0],
                                            Len(aead.plaintext), aead.wide_shift)} :
           aead' = [aead EXCEPT !.ctx = r.ctx, !.ciphertext = r.ciphertext,
                                !.tag = r.tag, !.phase = "enc_done"]
    /\ UNCHANGED engineVars

\* secure_wipe(&ctx, sizeof(ctx)) and return
AeadWipe ==
    /\ aead.phase \in {"enc_done", "dec_done"}
    /\ aead' = [aead EXCEPT !.ctx = secure_wipe,
                            !.phase = IF aead.phase = "enc_done" THEN "on_air" ELSE "finished"]
    /\ UNCHANGED engineVars

\* the places where the frame may have one bit flipped on the way
Tampers ==
    {[field |-> "none", at |-> 0]}
    \cup {[field |-> "ciphertext", at |-> i] : i \in {1, Len(aead.ciphertext)} \cap DOMAIN aead.ciphertext}
    \cup {[field |-> "tag", at |-> i] : i \in {1, POLY1305_TAG_SIZE}}
    \cup {[field |-> "aad", at |-> i] : i \in {1, Len(aead.aad)} \cap DOMAIN aead.aad}

FlipBit(bytes, at) == [bytes EXCEPT ![at] = Xor8(bytes[at], 1)]

\* the frame reaches the receiver, which holds a plaintext buffer of its own
Deliver(t) ==
    /\ aead.phase = "on_air"
    /\ aead' = [aead EXCEPT
                  !.tamper = t,
                  !.ciphertext = IF t.field = "ciphertext" THEN FlipBit(@, t.at) ELSE @,
                  !.tag = IF t.field = "tag" THEN FlipBit(@, t.at) ELSE @,
                  !.aad = IF t.field = "aad" THEN FlipBit(@, t.at) ELSE @,
                  !.output = [i \in 1..Len(aead.ciphertext) |-> 238],
                  !.phase = "dec_start"]
    /\ UNCHANGED engineVars

\* chacha20_poly1305_decrypt(&ctx, ciphertext, plaintext, ciphertext_len, tag)
AeadDecrypt ==
    /\ AadDone("dec")
    /\ \E r \in {chacha20_poly1305_decrypt(aead.ctx, aead.ciphertext, aead.output,
                                            Len(aead.ciphertext), aead.tag, aead.wide_shift)} :
           aead' = [aead EXCEPT !.ctx = r.ctx, !.output = r.plaintext, !.locals = r.locals,
                                !.result = r.ok, !.phase = "dec_done"]
    /\ UNCHANGED engineVars

NextAead ==
    \/ \E g \in StackBytes, overflow \in Overflows : AeadInit(g, overflow)
    \/ AeadAad
    \/ AeadEncrypt
    \/ AeadWipe
    \/ \E t \in Tampers : Deliver(t)
    \/ AeadDecrypt

SpecAead == InitAead /\ [][NextAead]_vars

(***************************************************************************)
(* Coordinator: the routing table over time.  Devices are heard, time      *)
(* passes, and loop() sweeps the table once a minute.                      *)
(***************************************************************************)
MaxHeard == 2         \* receive callbacks explored per behaviour
MaxElapsed == 2       \* clock advances explored per behaviour
SweepMs == 61000      \* a clock advance past the sweep period
StaleMs == 301000     \* a clock advance past the staleness threshold

HEARTBEAT_INTERVAL == 60000

\* the table after remove_routing_entry(mac)
remove_routing_entry(table, mac) ==
    LET found == find_routing_entry(table, mac)
    IN  IF found = 0 THEN table
        ELSE [j \in 1..(Len(table) - 1) |-> IF j < found THEN table[j] ELSE table[j + 1]]

\* an iteration that moves on after a removal, without the i--
CleanupStepSkip(st, now) ==
    LET threshold == U32(300)
        entry == st.table[st.i]
    IN  IF st.i > Len(st.table) THEN st
        ELSE IF Gt32(Sub32(now, entry.last_seen), threshold)
             THEN [table |-> remove_routing_entry(st.table, entry.device_mac),
                   i |-> st.i + 1]
             ELSE [table |-> st.table, i |-> st.i + 1]

\* one iteration of the for loop of cleanup_old_entries; st.i counts from 1
CleanupStep(st, now) ==
    LET threshold == U32(300)
        entry == st.table[st.i]
    IN  IF st.i > Len(st.table) THEN st
        ELSE IF Gt32(Sub32(now, entry.last_seen), threshold)
             THEN [table |-> remove_routing_entry(st.table, entry.device_mac), i |-> st.i]
             ELSE [table |-> st.table, i |-> st.i + 1]

\* n iterations of the loop
RECURSIVE CleanupRun(_, _, _)
CleanupRun(st, now, n) ==
    IF n = 0 THEN st
    ELSE WithValue(CleanupStep(st, now), LAMBDA s : CleanupRun(s, now, n - 1))

\* the loop to its end, CleanupChunk iterations at a time: each iteration
\* removes an entry or moves on, so Len(table) iterations end it
CleanupChunk == 10

RECURSIVE CleanupFrom(_, _, _)
CleanupFrom(st, now, chunks) ==
    IF chunks = 0 THEN st
    ELSE WithValue(CleanupRun(st, now, CleanupChunk),
                   LAMBDA s : CleanupFrom(s, now, chunks - 1))

\* the table after cleanup_old_entries() at clock ms
cleanup_old_entries(table, ms) ==
    WithValue(Div32(ms, 1000),
              LAMBDA now : CleanupFrom([table |-> table, i |-> 1], now,
                                       (Len(table) + CleanupChunk - 1) \div CleanupChunk).table)

\* send_heartbeat that leaves ttl at 0
send_heartbeat_zero_ttl(self, ms) ==
    <<[to |-> BROADCAST_MAC,
       pkt |-> Packet(MESH_NETWORK_ID, PROTOCOL_VERSION, 0, ms, self,
                      BROADCAST_MAC, self, MSG_HEARTBEAT, 0),
       len |-> SizeofMeshPacketHeader]>>

\* the esp_now_send call of send_heartbeat() at clock ms
send_heartbeat(self, ms) ==
    <<[to |-> BROADCAST_MAC,
       pkt |-> Packet(MESH_NETWORK_ID, PROTOCOL_VERSION, DEFAULT_TTL, ms, self,
                      BROADCAST_MAC, self, MSG_HEARTBEAT, 0),
       len |-> SizeofMeshPacketHeader]>>

\* handle_api_devices: the "online" value reported for entry i at clock ms
handle_api_devices(table, i, ms) ==
    Gt32(U32(300), Sub32(Div32(ms, 1000), table[i].last_seen))

\* a timer test on the sum: millis() > last + interval
DueAbsolute(last, interval) == Gt32(millis, Add32(last, U32(interval)))

\* millis() - last > interval
Due(last, interval) == Gt32(Sub32(millis, last), U32(interval))

\* the esp_now_send call of send_device_discovery() at clock ms
send_device_discovery(self, ms) ==
    <<[to |-> BROADCAST_MAC,
       pkt |-> Packet(MESH_NETWORK_ID, PROTOCOL_VERSION, DEFAULT_TTL, ms, self,
                      BROADCAST_MAC, self, MSG_DISCOVERY, 0),
       len |-> SizeofMeshPacketHeader]>>

\* the console commands of the coordinator that change state or send
ConsoleCommands == {"none", "scan"}

\* one iteration of loop() in which a timer fires or the console line cmd
\* is read: everything but the history
LoopBody(cmd) ==
    LET heartbeat == Due(loop_timers.last_heartbeat, HEARTBEAT_INTERVAL)
        cleanup == Due(loop_timers.last_cleanup, 60000)
        stat == Due(loop_timers.last_stat_update, 10000)
    IN  /\ heartbeat \/ cleanup \/ stat \/ cmd # "none"
        /\ sent' = (IF heartbeat THEN send_heartbeat(CoordinatorMac, millis) ELSE <<>>)
                   \o (IF cmd = "scan" THEN send_device_discovery(CoordinatorMac, millis)
                       ELSE <<>>)
        /\ routing_table' = IF cleanup THEN cleanup_old_entries(routing_table, millis)
                            ELSE routing_table
        /\ loop_timers' =
              [loop_timers EXCEPT
                  !.last_heartbeat = IF heartbeat THEN millis ELSE @,
                  !.last_cleanup = IF cleanup THEN millis ELSE @,
                  !.last_stat_update = IF stat THEN millis ELSE @]
        /\ rx' = NoFrame
        /\ handled' = <<>>
        /\ acked' = <<>>
        /\ table_op' = [table_op EXCEPT !.name = IF cleanup THEN "cleanup" ELSE "loop"]
        /\ UNCHANGED <<last_save, prefs, packets_received, seen_log, call, race, net,
                     queue, aead>>

\* one iteration of loop() with no console input; the time it takes is part
\* of the time Elapse lets pass
Loop == LoopBody("none") /\ UNCHANGED <<millis, originated>>

\* time passes between two callbacks or loop iterations
Elapse(ms) ==
    /\ table_op.elapsed < MaxElapsed
    /\ millis' = Add32(millis, U32(ms))
    /\ table_op' = [table_op EXCEPT !.name = "elapse", !.elapsed = @ + 1]
    /\ UNCHANGED <<routing_table, last_save, prefs, packets_received, rx, handled,
                   sent, acked, seen_log, loop_timers, sideVars, aead>>

\* the devices of the network
Device(n) == <<2, 0, 0, 1, n \div 256, n % 256>>

\* the table after devices first..first+n-1 were each heard once, directly,
\* at clock 0
RECURSIVE HeardRun(_, _, _)
HeardRun(table, first, n) ==
    IF n = 0 THEN table
    ELSE WithValue(update_routing_table(table, Device(first), 0, Device(first), U32(0)),
                   LAMBDA t : HeardRun(t, first + 1, n - 1))

\* the same for devices first..last, CleanupChunk devices at a time
RECURSIVE HeardFrom(_, _, _)
HeardFrom(table, first, last) ==
    IF first > last THEN table
    ELSE WithValue(HeardRun(table, first, Min(CleanupChunk, last - first + 1)),
                   LAMBDA t : HeardFrom(t, first + CleanupChunk, last))

Heard(n) == HeardFrom(<<>>, 1, n)

\* a heartbeat of device src as the driver delivers it
HeartbeatFrom(src) ==
    Frame(SizeofMeshPacketHeader,
          Packet(MESH_NETWORK_ID, PROTOCOL_VERSION, DEFAULT_TTL, U32(1), src,
                 BROADCAST_MAC, src, MSG_HEARTBEAT, 0),
          TRUE)

\* the devices heard next: the first one, or one never heard before
TableSources == {Device(1), Device(MAX_ROUTING_ENTRIES + table_op.heard)}

\* coordinator on_espnow_recv(mac, data, len) for a device's heartbeat
TableRecv(mac, frame) ==
    /\ table_op.heard < MaxHeard
    /\ CoordinatorOnRecv(mac, frame)
    /\ table_op' = [table_op EXCEPT !.name = "recv", !.heard = @ + 1]
    /\ UNCHANGED seen_log

\* at boot the table is empty; all devices but one may have been heard since
InitTable ==
    /\ millis = U32(0)
    /\ routing_table \in {<<>>, Heard(MAX_ROUTING_ENTRIES - 1)}
    /\ last_save = U32(0)
    /\ prefs = [routing_count |-> 0, routing_table |-> <<>>]
    /\ packets_received = Len(routing_table)
    /\ rx = NoFrame
    /\ handled = <<>>
    /\ sent = <<>>
    /\ acked = <<>>
    /\ seen_log = <<>>
    /\ loop_timers = [last_heartbeat |-> U32(0), last_cleanup |-> U32(0),
                      last_stat_update |-> U32(0), last_send |-> U32(0)]
    /\ table_op = NoOp
    /\ originated = <<>>
    /\ call = NoCall
    /\ net = NoNet
    /\ queue = NoQueue
    /\ race = NoRace
    /\ aead = [phase |-> "idle"]

NextTable ==
    \/ \E src \in TableSources : \E mac \in {src, RepeaterMac} :
          TableRecv(mac, HeartbeatFrom(src))
    \/ \E ms \in {SweepMs, StaleMs} : Elapse(ms)
    \/ Loop

SpecTable == InitTable /\ [][NextTable]_vars

(***************************************************************************)
(* Packets the nodes originate: the coordinator's heartbeat and discovery, *)
(* the sensor node's readings.  The two nodes are read off one clock; no   *)
(* property compares the packets of one node with those of the other.      *)
(***************************************************************************)
MaxOriginated == 3    \* packets after which no further loop iteration is explored
LoopDelay == 100      \* the delay(100) that ends an iteration of either loop()
WrapMargin == 100000  \* milliseconds left before the 32-bit clock wraps

SEND_INTERVAL == 60000

\* the esp_now_send call of the sensor node's send_sensor_data() at clock ms
send_sensor_data(self, ms) ==
    <<[to |-> BROADCAST_MAC,
       pkt |-> [Packet(MESH_NETWORK_ID, PROTOCOL_VERSION, DEFAULT_TTL, ms, self,
                       BROADCAST_MAC, self, MSG_DATA_SENSOR, FLAG_REQUIRE_ACK)
                   EXCEPT !.group_id = 1],
       len |-> SizeofMeshPacketHeader]>>

\* the sends of one node, as the history keeps them
OriginatedBy(node, sends) ==
    [i \in 1..Len(sends) |-> [node |-> node, to |-> sends[i].to,
                              pkt |-> sends[i].pkt, len |-> sends[i].len]]

\* one iteration of the coordinator's loop(), console input included
CoordinatorLoop(cmd) ==
    /\ Len(originated) < MaxOriginated
    /\ LoopBody(cmd)
    /\ originated' = originated \o OriginatedBy("coordinator", sent')
    /\ millis' = Add32(millis, U32(LoopDelay))

\* the console commands of the sensor node that send
SensorCommands == {"none", "send"}

\* one iteration of the sensor node's loop()
SensorLoop(cmd) ==
    LET due == Due(loop_timers.last_send, SEND_INTERVAL)
        timed == IF due THEN send_sensor_data(MacA, millis) ELSE <<>>
        asked == IF cmd = "send" THEN send_sensor_data(MacA, millis) ELSE <<>>
    IN  /\ Len(originated) < MaxOriginated
        /\ due \/ cmd = "send"
        /\ originated' = originated \o OriginatedBy("sensor", timed \o asked)
        /\ loop_timers' = [loop_timers EXCEPT !.last_send = IF due THEN millis ELSE @]
        /\ table_op' = [table_op EXCEPT !.name = "sensor"]
        /\ millis' = Add32(millis, U32(LoopDelay))
        /\ UNCHANGED <<routing_table, last_save, prefs, packets_received, rx,
                       handled, sent, acked, seen_log, call, race, net,
                     queue, aead>>

\* the clock at the start: just booted, or WrapMargin before it wraps
NearWrap == Sub32(U32(0), U32(WrapMargin))

InitOrigin ==
    /\ millis \in {U32(0), NearWrap}
    /\ routing_table = <<>>
    /\ last_save = millis
    /\ prefs = [routing_count |-> 0, routing_table |-> <<>>]
    /\ packets_received = 0
    /\ rx = NoFrame
    /\ handled = <<>>
    /\ sent = <<>>
    /\ acked = <<>>
    /\ seen_log = <<>>
    /\ loop_timers = [last_heartbeat |-> millis, last_cleanup |-> millis,
                      last_stat_update |-> millis, last_send |-> millis]
    /\ table_op = NoOp
    /\ originated = <<>>
    /\ call = NoCall
    /\ net = NoNet
    /\ queue = NoQueue
    /\ race = NoRace
    /\ aead = [phase |-> "idle"]

NextOrigin ==
    \/ \E cmd \in ConsoleCommands : CoordinatorLoop(cmd)
    \/ \E cmd \in SensorCommands : SensorLoop(cmd)
    \/ \E ms \in {SweepMs, StaleMs} : Elapse(ms)

SpecOrigin == InitOrigin /\ [][NextOrigin]_vars

(***************************************************************************)
(* Coordinator: loop() called again and again while the clock advances,    *)
(* from boot or from shortly before the clock wraps.                       *)
(***************************************************************************)
StatMs == 10001    \* a clock advance past the statistics period only

\* one iteration of loop() with no console input, its delay(100) included
LoopTimed ==
    /\ LoopBody("none")
    /\ originated' = originated \o OriginatedBy("coordinator", sent')
    /\ millis' = Add32(millis, U32(LoopDelay))

NextLoop ==
    \/ LoopTimed
    \/ \E ms \in {StatMs, TickMs, SweepMs, StaleMs} : Elapse(ms)

\* loop() is called for as long as the coordinator runs
SpecLoop == InitOrigin /\ [][NextLoop]_vars /\ WF_vars(LoopTimed)

(***************************************************************************)
(* Repeater: loop() and the receive callback, from boot on.                *)
(***************************************************************************)
RepeaterUptime == 30200    \* clock value after which loop() is not followed further
MaxRelayed == 1            \* frames the repeater hears in that time

\* HEARTBEAT_INTERVAL of the repeater
REPEATER_HEARTBEAT_INTERVAL == 30000

\* one iteration of the repeater's loop(): delay(100)
RepeaterLoop ==
    /\ Gt32(U32(RepeaterUptime), millis)
    /\ millis' = Add32(millis, U32(LoopDelay))
    /\ rx' = NoFrame
    /\ sent' = <<>>
    /\ handled' = <<>>
    /\ acked' = <<>>
    /\ table_op' = [table_op EXCEPT !.name = "repeater"]
    /\ UNCHANGED <<routing_table, last_save, prefs, packets_received, seen_log,
                   loop_timers, sideVars, aead>>

\* a sensor node's heartbeat reaches the repeater
RepeaterHears ==
    /\ Len(seen_log) < MaxRelayed
    /\ RepeaterRecv(MacA, HeartbeatFrom(MacA))

NextRepeater ==
    \/ RepeaterLoop
    \/ RepeaterHears

SpecRepeater == Init /\ [][NextRepeater]_vars

(***************************************************************************)
(* Sensor node and coordinator: readings sent with FLAG_REQUIRE_ACK and    *)
(* what comes back.  The sensor node registers a send callback only, which *)
(* prints the link status; it has no receive callback.                     *)
(***************************************************************************)
MaxDelivered == 1    \* readings that reach the coordinator

\* the coordinator's on_espnow_recv for a reading the sensor node has sent
ReadingRecv(i) ==
    /\ packets_received < MaxDelivered
    /\ originated[i].node = "sensor"
    /\ CoordinatorOnRecv(MacA, Frame(originated[i].len, originated[i].pkt, TRUE))
    /\ UNCHANGED <<seen_log, table_op>>

NextAck ==
    \/ \E cmd \in SensorCommands : SensorLoop(cmd)
    \/ \E ms \in {SweepMs, StaleMs} : Elapse(ms)
    \/ \E i \in 1..Len(originated) : ReadingRecv(i)

\* the sensor's loop() keeps running, the clock advances, frames arrive
SpecAck == InitOrigin /\ [][NextAck]_vars /\ WF_vars(NextAck)

(***************************************************************************)
(* A network of relays in a line: device, repeater, second repeater,       *)
(* coordinator.  The device originates one packet; every frame on the air  *)
(* is received by the neighbours it is sent to, and no node remembers      *)
(* packets.                                                                *)
(***************************************************************************)
MaxTtl == 7    \* the ttl of the originated packet is 1..MaxTtl

Repeater2Mac == <<2, 0, 0, 0, 0, 83>>   \* the second repeater's self_mac

MacB == <<2, 0, 0, 0, 0, 2>>            \* a device the coordinator knows

Repeaters == {RepeaterMac, Repeater2Mac}

\* the relay nodes in range of a node
Neighbours(node) ==
    CASE node = MacA -> {RepeaterMac}
      [] node = RepeaterMac -> {Repeater2Mac}
      [] node = Repeater2Mac -> {RepeaterMac, CoordinatorMac}
      [] node = CoordinatorMac -> {Repeater2Mac}

\* the relay nodes that receive a frame sent by from to the address to
Hears(from, to) ==
    IF to = BROADCAST_MAC THEN Neighbours(from) ELSE {to} \cap Neighbours(from)

\* the frames of the sends of node from (each callback sends at most once),
\* one copy for each node that receives it
OnAir(sends, from) ==
    SetToBag(UNION {{[from |-> from, to |-> sends[k].to, pkt |-> sends[k].pkt,
                      len |-> sends[k].len, rcv |-> rcv] :
                         rcv \in Hears(from, sends[k].to)} :
                    k \in 1..Len(sends)})

\* the packets a device may originate
FloodPackets ==
    {Packet(MESH_NETWORK_ID, PROTOCOL_VERSION, ttl, U32(1), MacA, dst, MacA,
            MSG_DATA_SENSOR, 0) : ttl \in 1..MaxTtl, dst \in {BROADCAST_MAC, MacB}}

\* what the coordinator has learned before: nothing, or the device MacB
\* behind the second repeater
FloodTables == {<<>>, update_routing_table(<<>>, MacB, 0, Repeater2Mac, U32(0))}

InitFlood ==
    /\ EngineInit
    /\ aead = [phase |-> "idle"]

\* the device sends its packet
Originate(pkt) ==
    /\ net = NoNet
    /\ net' = [air |-> OnAir(<<[to |-> BROADCAST_MAC, pkt |-> pkt,
                                len |-> SizeofMeshPacketHeader]>>, MacA),
               tx |-> 1]
    /\ \E table \in FloodTables : routing_table' = table
    /\ UNCHANGED <<millis, last_save, prefs, packets_received, rx, handled, sent,
                   acked, seen_log, loop_timers, table_op, originated, call, race,
                   queue, aead>>

\* a repeater's on_espnow_recv for the frame x
FloodRepeater(x) ==
    /\ x.rcv \in Repeaters
    /\ LET sends == RepeaterSends(x.rcv, Frame(x.len, x.pkt, TRUE))
       IN  /\ sent' = sends
           /\ net' = [air |-> (net.air (-) SetToBag({x})) (+) OnAir(sends, x.rcv),
                      tx |-> net.tx + Len(sends)]
    /\ rx' = [node |-> "repeater", mac |-> x.from, len |-> x.len, pkt |-> x.pkt,
              tag_ok |-> TRUE]
    /\ handled' = <<>>
    /\ acked' = <<>>
    /\ UNCHANGED <<millis, routing_table, last_save, prefs, packets_received,
                   seen_log, loop_timers, table_op, originated, call, race, queue,
                   aead>>

\* the coordinator's on_espnow_recv for the frame x
FloodCoordinator(x) ==
    /\ x.rcv = CoordinatorMac
    /\ CoordinatorCallback(x.from, Frame(x.len, x.pkt, TRUE))
    /\ net' = [air |-> (net.air (-) SetToBag({x})) (+) OnAir(sent', CoordinatorMac),
               tx |-> net.tx + Len(sent')]
    /\ UNCHANGED <<millis, seen_log, loop_timers, table_op, originated, call, race,
                   queue, aead>>

NextFlood ==
    \/ \E pkt \in FloodPackets : Originate(pkt)
    \/ \E x \in BagToSet(net.air) : FloodRepeater(x)
    \/ \E x \in BagToSet(net.air) : FloodCoordinator(x)

\* every frame on the air is received
SpecFlood == InitFlood /\ [][NextFlood]_vars /\ WF_vars(NextFlood)

(***************************************************************************)
(* The coordinator near the wrap of the 32-bit millisecond clock: a device *)
(* is heard, time passes, loop() runs its timers.                          *)
(***************************************************************************)
\* coordinator on_espnow_recv for the heartbeat of a device
WrapRecv == \E src \in {Device(1), Device(2)} :
                CoordinatorRecv(src, HeartbeatFrom(src))

NextWrap ==
    \/ WrapRecv
    \/ LoopTimed
    \/ \E ms \in {TickMs, SweepMs} : Elapse(ms)

\* the coordinator has been up for almost 2^32 ms
InitWrap == InitOrigin /\ millis = NearWrap

SpecWrap == InitWrap /\ [][NextWrap]_vars

(***************************************************************************)
(* The circular queue of utils.c.  A queue is the record of its fields;    *)
(* buffer holds capacity items, indexed from 1 here.  The items pushed are *)
(* numbered 1, 2, ... in the order of the calls that accepted them.        *)
(***************************************************************************)
MaxCapacity == 3    \* queue_init is called with capacity 1..MaxCapacity
MaxPushes == 5      \* calls of queue_push that are accepted
UINT16 == 65536

\* the queue after queue_init(queue, buffer, item_size, capacity), capacity > 0;
\* the caller's buffer holds no item yet
queue_init(capacity) ==
    [buffer |-> [i \in 1..capacity |-> 0], capacity |-> capacity,
     head |-> 0, tail |-> 0, count |-> 0, full |-> FALSE]

\* queue_push that does not test full
queue_push_overwrite(q, item) ==
    LET tail == (q.tail + 1) % q.capacity
    IN  [ok |-> TRUE,
         queue |-> [q EXCEPT !.buffer[q.tail + 1] = item, !.tail = tail,
                             !.count = (q.count + 1) % UINT16,
                             !.full = IF tail = q.head THEN TRUE ELSE @]]

\* queue_push(queue, item): the return value and the queue
queue_push(q, item) ==
    IF q.full THEN [ok |-> FALSE, queue |-> q]
    ELSE LET tail == (q.tail + 1) % q.capacity
         IN  [ok |-> TRUE,
              queue |-> [q EXCEPT !.buffer[q.tail + 1] = item, !.tail = tail,
                                  !.count = (q.count + 1) % UINT16,
                                  !.full = IF tail = q.head THEN TRUE ELSE @]]

\* queue_pop(queue, item): the return value, the item copied out, the queue
queue_pop(q) ==
    IF q.count = 0 /\ ~q.full THEN [ok |-> FALSE, item |-> 0, queue |-> q]
    ELSE [ok |-> TRUE, item |-> q.buffer[q.head + 1],
          queue |-> [q EXCEPT !.head = (q.head + 1) % q.capacity,
                              !.count = (q.count + UINT16 - 1) % UINT16,
                              !.full = FALSE]]

\* queue_peek(queue, item): the return value and the item copied out
queue_peek(q) ==
    IF q.count = 0 /\ ~q.full THEN [ok |-> FALSE, item |-> 0, queue |-> q]
    ELSE [ok |-> TRUE, item |-> q.buffer[q.head + 1], queue |-> q]

\* queue_clear that leaves the full flag as it is
queue_clear_keep_full(q) == [q EXCEPT !.head = 0, !.tail = 0, !.count = 0]

queue_clear(q) == [q EXCEPT !.head = 0, !.tail = 0, !.count = 0, !.full = FALSE]

queue_is_empty(q) == q.count = 0 /\ ~q.full

queue_is_full(q) == q.full

queue_count(q) == q.count

\* a queue after queue_init; pushed counts the accepted items, gone is the
\* number of the last item that was popped or cleared, last is the last call
InitQueue ==
    /\ millis = U32(0)
    /\ routing_table = <<>>
    /\ last_save = U32(0)
    /\ prefs = [routing_count |-> 0, routing_table |-> <<>>]
    /\ packets_received = 0
    /\ rx = NoFrame
    /\ handled = <<>>
    /\ sent = <<>>
    /\ acked = <<>>
    /\ seen_log = <<>>
    /\ loop_timers = [last_heartbeat |-> U32(0), last_cleanup |-> U32(0),
                      last_stat_update |-> U32(0), last_send |-> U32(0)]
    /\ table_op = NoOp
    /\ originated = <<>>
    /\ call = NoCall
    /\ net = NoNet
    /\ queue \in {[q |-> queue_init(c), pushed |-> 0, gone |-> 0,
                   last |-> [op |-> "init", ok |-> TRUE, item |-> 0]] :
                      c \in 1..MaxCapacity}
    /\ race = NoRace
    /\ aead = [phase |-> "idle"]

queueRest == <<millis, routing_table, last_save, prefs, packets_received, rx, handled,
               sent, acked, seen_log, loop_timers, table_op, originated, call, race,
               net, aead>>

QueuePush ==
    /\ queue.pushed < MaxPushes
    /\ \E r \in {queue_push(queue.q, queue.pushed + 1)} :
           queue' = [queue EXCEPT !.q = r.queue,
                                  !.pushed = IF r.ok THEN @ + 1 ELSE @,
                                  !.last = [op |-> "push", ok |-> r.ok,
                                            item |-> queue.pushed + 1]]
    /\ UNCHANGED queueRest

QueuePop ==
    /\ \E r \in {queue_pop(queue.q)} :
           queue' = [queue EXCEPT !.q = r.queue,
                                  !.gone = IF r.ok THEN r.item ELSE @,
                                  !.last = [op |-> "pop", ok |-> r.ok, item |-> r.item]]
    /\ UNCHANGED queueRest

QueuePeek ==
    /\ \E r \in {queue_peek(queue.q)} :
           queue' = [queue EXCEPT !.q = r.queue,
                                  !.last = [op |-> "peek", ok |-> r.ok, item |-> r.item]]
    /\ UNCHANGED queueRest

QueueClear ==
    /\ queue' = [queue EXCEPT !.q = queue_clear(queue.q), !.gone = queue.pushed,
                              !.last = [op |-> "clear", ok |-> TRUE, item |-> 0]]
    /\ UNCHANGED queueRest

NextQueue == QueuePush \/ QueuePop \/ QueuePeek \/ QueueClear

SpecQueue == InitQueue /\ [][NextQueue]_vars

(***************************************************************************)
(* The circular queue with one producer task in queue_push and one         *)
(* consumer task in queue_pop, without a lock: a step is one read or write *)
(* of a field another task writes, together with what the task does with   *)
(* its own data before the next such access.  pushed counts the items that *)
(* queue_push accepted (calls that passed the test of full), delivered     *)
(* lists the items queue_pop returned.                                     *)
(***************************************************************************)
Idle == [pc |-> "idle", item |-> 0, count |-> 0]

InitSpsc ==
    /\ millis = U32(0)
    /\ routing_table = <<>>
    /\ last_save = U32(0)
    /\ prefs = [routing_count |-> 0, routing_table |-> <<>>]
    /\ packets_received = 0
    /\ rx = NoFrame
    /\ handled = <<>>
    /\ sent = <<>>
    /\ acked = <<>>
    /\ seen_log = <<>>
    /\ loop_timers = [last_heartbeat |-> U32(0), last_cleanup |-> U32(0),
                      last_stat_update |-> U32(0), last_send |-> U32(0)]
    /\ table_op = NoOp
    /\ originated = <<>>
    /\ call = NoCall
    /\ net = NoNet
    /\ queue \in {[q |-> queue_init(c), pushed |-> 0, delivered |-> <<>>,
                   producer |-> Idle, consumer |-> Idle] : c \in 1..MaxCapacity}
    /\ race = NoRace
    /\ aead = [phase |-> "idle"]

\* queue_push: the test of queue->full; a call that finds the queue full
\* returns false and changes nothing, any other call returns true in the end
PushTestFull ==
    /\ queue.producer.pc = "idle"
    /\ queue.pushed < MaxPushes
    /\ ~queue.q.full
    /\ queue' = [queue EXCEPT !.producer = [pc |-> "copy", item |-> queue.pushed + 1,
                                            count |-> 0],
                              !.pushed = @ + 1]
    /\ UNCHANGED queueRest

\* queue_push: memcpy to buffer[tail], then tail = (tail + 1) % capacity
PushCopy ==
    /\ queue.producer.pc = "copy"
    /\ queue' = [queue EXCEPT !.q.buffer[queue.q.tail + 1] = queue.producer.item,
                              !.q.tail = (queue.q.tail + 1) % queue.q.capacity,
                              !.producer.pc = "count"]
    /\ UNCHANGED queueRest

\* queue_push: count++ reads count ...
PushReadCount ==
    /\ queue.producer.pc = "count"
    /\ queue' = [queue EXCEPT !.producer.count = queue.q.count,
                              !.producer.pc = "count_write"]
    /\ UNCHANGED queueRest

\* ... and writes it
PushWriteCount ==
    /\ queue.producer.pc = "count_write"
    /\ queue' = [queue EXCEPT !.q.count = (queue.producer.count + 1) % UINT16,
                              !.producer.pc = "compare"]
    /\ UNCHANGED queueRest

\* queue_push: the test tail == head; return true when they differ
PushCompare ==
    /\ queue.producer.pc = "compare"
    /\ queue' = IF queue.q.tail = queue.q.head
                THEN [queue EXCEPT !.producer.pc = "full"]
                ELSE [queue EXCEPT !.producer = Idle]
    /\ UNCHANGED queueRest

\* queue_push: full = true; return true
PushSetFull ==
    /\ queue.producer.pc = "full"
    /\ queue' = [queue EXCEPT !.q.full = TRUE, !.producer = Idle]
    /\ UNCHANGED queueRest

\* queue_pop: the test count == 0 && !full reads count ...
PopTestCount ==
    /\ queue.consumer.pc = "idle"
    /\ Len(queue.delivered) <= MaxPushes
    /\ queue' = [queue EXCEPT !.consumer.pc = IF queue.q.count # 0 THEN "copy"
                                              ELSE "test_full"]
    /\ UNCHANGED queueRest

\* ... and, count being 0, full; the call returns false when full is false
PopTestFull ==
    /\ queue.consumer.pc = "test_full"
    /\ queue' = [queue EXCEPT !.consumer.pc = IF queue.q.full THEN "copy" ELSE "idle"]
    /\ UNCHANGED queueRest

\* queue_pop: memcpy from buffer[head], then head = (head + 1) % capacity
PopCopy ==
    /\ queue.consumer.pc = "copy"
    /\ queue' = [queue EXCEPT !.consumer.item = queue.q.buffer[queue.q.head + 1],
                              !.q.head = (queue.q.head + 1) % queue.q.capacity,
                              !.consumer.pc = "count"]
    /\ UNCHANGED queueRest

\* queue_pop: count-- reads count ...
PopReadCount ==
    /\ queue.consumer.pc = "count"
    /\ queue' = [queue EXCEPT !.consumer.count = queue.q.count,
                              !.consumer.pc = "count_write"]
    /\ UNCHANGED queueRest

\* ... and writes it
PopWriteCount ==
    /\ queue.consumer.pc = "count_write"
    /\ queue' = [queue EXCEPT !.q.count = (queue.consumer.count + UINT16 - 1) % UINT16,
                              !.consumer.pc = "full"]
    /\ UNCHANGED queueRest

\* queue_pop: full = false; return true
PopClearFull ==
    /\ queue.consumer.pc = "full"
    /\ queue' = [queue EXCEPT !.q.full = FALSE, !.consumer = Idle,
                              !.delivered = Append(@, queue.consumer.item)]
    /\ UNCHANGED queueRest

NextSpsc ==
    \/ PushTestFull \/ PushCopy \/ PushReadCount \/ PushWriteCount
    \/ PushCompare \/ PushSetFull
    \/ PopTestCount \/ PopTestFull \/ PopCopy \/ PopReadCount \/ PopWriteCount
    \/ PopClearFull

SpecSpsc == InitSpsc /\ [][NextSpsc]_vars

(***************************************************************************)
(* The key and nonce derivations and the tag comparison, each applied to   *)
(* two argument lists so that two runs can be compared.                    *)
(***************************************************************************)
MaxCompareLen == 2    \* longest buffers handed to the comparison

\* write_be32(buffer, value): the four bytes of value, most significant first
write_be32(value) ==
    <<value[1] \div 256, value[1] % 256, value[2] \div 256, value[2] % 256>>

\* derive_packet_nonce that leaves the address bytes zero
derive_packet_nonce_no_src(session_key, packet_id, src_mac) ==
    write_be32(packet_id) \o <<0, 0, 0, 0, 0, 0>> \o <<0, 0>>

\* output_nonce after derive_packet_nonce
derive_packet_nonce(session_key, packet_id, src_mac) ==
    write_be32(packet_id) \o src_mac \o <<0, 0>>

\* session_key after derive_session_key, whose context ctx lies on stack
\* memory holding the byte g and whose caller's buffer held zeroes
derive_session_key(master_key, session_id, g, wide_shift) ==
    WithValue(master_key \o write_be32(session_id), LAMBDA input :
    WithValue([i \in 1..CHACHA20_NONCE_SIZE |-> 0], LAMBDA nonce :
    WithValue(chacha20_poly1305_init(UninitCtx(g), master_key, nonce), LAMBDA ctx :
        chacha20_poly1305_encrypt(ctx, input, [i \in 1..CHACHA20_KEY_SIZE |-> 0],
                                  32, wide_shift).ciphertext)))

\* a comparison that returns at the first differing byte
RECURSIVE CompareEarlyExit(_, _, _, _, _, _)
CompareEarlyExit(a, b, len, i, result, steps) ==
    IF i < len
    THEN IF a[i + 1] # b[i + 1]
         THEN [equal |-> FALSE,
               steps |-> steps \o <<<<"a", i>>, <<"b", i>>, <<"return", i>>>>]
         ELSE CompareEarlyExit(a, b, len, i + 1, result,
                               steps \o <<<<"a", i>>, <<"b", i>>>>)
    ELSE [equal |-> TRUE, steps |-> Append(steps, <<"return", i>>)]

\* the loop of constant_time_compare from iteration i on: the accumulated
\* result and the memory reads made, in order
RECURSIVE CompareFrom(_, _, _, _, _, _)
CompareFrom(a, b, len, i, result, steps) ==
    IF i < len
    THEN CompareFrom(a, b, len, i + 1, Or8(result, Xor8(a[i + 1], b[i + 1])),
                     steps \o <<<<"a", i>>, <<"b", i>>>>)
    ELSE [equal |-> result = 0, steps |-> Append(steps, <<"return", i>>)]

\* constant_time_compare of chacha20_poly1305.c, with the steps it takes
constant_time_compare_run(a, b, len) == CompareFrom(a, b, len, 0, 0, <<>>)

\* secure_compare of utils.c on two buffers, with the steps it takes
secure_compare_run(a, b, len) == CompareFrom(a, b, len, 0, 0, <<<<"null check", 0>>>>)

Keys == {SessionKey, [i \in 1..CHACHA20_KEY_SIZE |-> 255 - i]}
Ids == {U32(1), U32(256), <<1, 0>>, <<256, 0>>}
CompareBytes == {0, 129}
Buffers == [1..MaxCompareLen -> CompareBytes]

NonceArgs == [session_key : Keys, packet_id : Ids, src_mac : {MacA, RepeaterMac, CoordinatorMac}]
KeyArgs == [session_id : Ids, g : StackBytes, overflow : Overflows]
CompareArgs == [a : Buffers, b : Buffers]

\* the calls to make: two argument lists for one function
CallStarts ==
    {[fn |-> "none", pending |-> "derive_packet_nonce", args |-> <<x, y>>] :
        x \in NonceArgs, y \in NonceArgs}
    \cup {[fn |-> "none", pending |-> "derive_session_key", args |-> <<x, y>>,
           master_key |-> k, wide_shift |-> w] :
        x \in KeyArgs, y \in KeyArgs, k \in Keys, w \in WideShifts}
    \cup {[fn |-> "none", pending |-> "compare", args |-> <<x, y>>, len |-> n] :
        x \in CompareArgs, y \in CompareArgs, n \in 0..MaxCompareLen}

InitCall ==
    /\ millis = U32(0)
    /\ routing_table = <<>>
    /\ last_save = U32(0)
    /\ prefs = [routing_count |-> 0, routing_table |-> <<>>]
    /\ packets_received = 0
    /\ rx = NoFrame
    /\ handled = <<>>
    /\ sent = <<>>
    /\ acked = <<>>
    /\ seen_log = <<>>
    /\ loop_timers = [last_heartbeat |-> U32(0), last_cleanup |-> U32(0),
                      last_stat_update |-> U32(0), last_send |-> U32(0)]
    /\ table_op = NoOp
    /\ originated = <<>>
    /\ call \in CallStarts
    /\ net = NoNet
    /\ queue = NoQueue
    /\ race = NoRace
    /\ aead = [phase |-> "idle"]

otherVars == <<millis, routing_table, last_save, prefs, packets_received, rx, handled,
               sent, acked, seen_log, loop_timers, table_op, originated, race, net, queue,
               aead>>

CallDeriveNonce ==
    /\ call.fn = "none" /\ call.pending = "derive_packet_nonce"
    /\ call' = [fn |-> "derive_packet_nonce", args |-> call.args,
                out |-> [k \in 1..2 |->
                            derive_packet_nonce(call.args[k].session_key,
                                                call.args[k].packet_id,
                                                call.args[k].src_mac)]]
    /\ UNCHANGED otherVars

\* a call whose chacha20_poly1305_init faults on the write past poly_key
\* returns nothing
CallDeriveKey ==
    /\ call.fn = "none" /\ call.pending = "derive_session_key"
    /\ \E out \in {[k \in 1..2 |->
                      IF call.args[k].overflow = "fault" THEN <<>>
                      ELSE derive_session_key(call.master_key, call.args[k].session_id,
                                              call.args[k].g, call.wide_shift)]} :
           call' = [fn |-> "derive_session_key", args |-> call.args,
                    master_key |-> call.master_key, out |-> out]
    /\ UNCHANGED otherVars

CallCompare(fn) ==
    /\ call.fn = "none" /\ call.pending = "compare"
    /\ call' = [fn |-> fn, args |-> call.args, len |-> call.len,
                out |-> [k \in 1..2 |->
                            IF fn = "secure_compare"
                            THEN secure_compare_run(call.args[k].a, call.args[k].b, call.len)
                            ELSE constant_time_compare_run(call.args[k].a, call.args[k].b,
                                                           call.len)]]
    /\ UNCHANGED otherVars

NextCall ==
    \/ CallDeriveNonce
    \/ CallDeriveKey
    \/ \E fn \in {"constant_time_compare", "secure_compare"} : CallCompare(fn)

SpecCall == InitCall /\ [][NextCall]_vars

(***************************************************************************)
(* Coordinator: the routing table under its three execution contexts.      *)
(* loop() sweeps it from the Arduino task, on_espnow_recv updates it from  *)
(* the WiFi task, and the AsyncWebServer handlers read it from the TCP     *)
(* task.  No function takes a lock, so each access to routing_table or     *)
(* routing_table_size is a step of its own.  An entry is its device        *)
(* (numbered from 1) and whether its fields were refreshed.                *)
(***************************************************************************)
RaceDevices == 3    \* devices in the table when the three contexts start

\* the slots of routing_table[] the contexts can reach from there
RaceSlots == RaceDevices + 1

RaceStarts ==
    {[pc |-> "run",
      table |-> [i \in 1..RaceSlots |->
                    [mac |-> IF i <= RaceDevices THEN i ELSE 0, fresh |-> FALSE]],
      size |-> RaceDevices,
      stale |-> d,
      heard |-> h,
      remove |-> [pc |-> "start", j |-> 0],
      update |-> [pc |-> "start", entry |-> 0],
      reader |-> [pc |-> "start", i |-> 0, seen |-> <<>>]] :
        d \in 1..RaceDevices, h \in 1..RaceSlots}

InitRace ==
    /\ millis = U32(0)
    /\ routing_table = <<>>
    /\ last_save = U32(0)
    /\ prefs = [routing_count |-> 0, routing_table |-> <<>>]
    /\ packets_received = 0
    /\ rx = NoFrame
    /\ handled = <<>>
    /\ sent = <<>>
    /\ acked = <<>>
    /\ seen_log = <<>>
    /\ loop_timers = [last_heartbeat |-> U32(0), last_cleanup |-> U32(0),
                      last_stat_update |-> U32(0), last_send |-> U32(0)]
    /\ table_op = NoOp
    /\ originated = <<>>
    /\ call = NoCall
    /\ net = NoNet
    /\ queue = NoQueue
    /\ race \in RaceStarts
    /\ aead = [phase |-> "idle"]

raceRest == <<millis, routing_table, last_save, prefs, packets_received, rx, handled,
              sent, acked, seen_log, loop_timers, table_op, originated, call, net, queue,
              aead>>

\* the index (from 1) of the first of the size entries that holds mac, or 0
RaceFind(table, size, mac) ==
    IF \E i \in 1..size : table[i].mac = mac
    THEN CHOOSE i \in 1..size : table[i].mac = mac /\ \A k \in 1..(i - 1) : table[k].mac # mac
    ELSE 0

\* remove_routing_entry(stale), called by cleanup_old_entries: the search
RemoveFind ==
    /\ race.remove.pc = "start"
    /\ \E i \in {RaceFind(race.table, race.size, race.stale)} :
           race' = [race EXCEPT !.remove = IF i = 0 THEN [pc |-> "done", j |-> 0]
                                           ELSE [pc |-> "shift", j |-> i - 1]]
    /\ UNCHANGED raceRest

\* for (j = i; j < routing_table_size - 1; j++) routing_table[j] = routing_table[j + 1]
RemoveShift ==
    /\ race.remove.pc = "shift"
    /\ race' = IF race.remove.j < race.size - 1
               THEN [race EXCEPT !.table[race.remove.j + 1] = race.table[race.remove.j + 2],
                                 !.remove.j = @ + 1]
               ELSE [race EXCEPT !.remove.pc = "decrement"]
    /\ UNCHANGED raceRest

\* routing_table_size--
RemoveDecrement ==
    /\ race.remove.pc = "decrement"
    /\ race' = [race EXCEPT !.size = @ - 1, !.remove.pc = "done"]
    /\ UNCHANGED raceRest

\* update_routing_table(heard): find_routing_entry and the capacity test
UpdateFind ==
    /\ race.update.pc = "start"
    /\ \E i \in {RaceFind(race.table, race.size, race.heard)} :
           race' = [race EXCEPT !.update =
                       IF i # 0 THEN [pc |-> "fields", entry |-> i]
                       ELSE IF race.size >= MAX_ROUTING_ENTRIES THEN [pc |-> "done", entry |-> 0]
                       ELSE [pc |-> "claim", entry |-> 0]]
    /\ UNCHANGED raceRest

\* entry = &routing_table[routing_table_size]; memcpy(entry->device_mac, mac, 6)
UpdateClaim ==
    /\ race.update.pc = "claim"
    /\ race' = [race EXCEPT !.table[race.size + 1].mac = race.heard,
                            !.update = [pc |-> "grow", entry |-> race.size + 1]]
    /\ UNCHANGED raceRest

\* routing_table_size++
UpdateGrow ==
    /\ race.update.pc = "grow"
    /\ race' = [race EXCEPT !.size = @ + 1, !.update.pc = "fields"]
    /\ UNCHANGED raceRest

\* entry->rssi, entry->last_seen, entry->status
UpdateFields ==
    /\ race.update.pc = "fields"
    /\ race' = [race EXCEPT !.table[race.update.entry].fresh = TRUE, !.update.pc = "done"]
    /\ UNCHANGED raceRest

\* handle_api_devices: for (i = 0; i < routing_table_size; i++) one entry read
ReaderStep ==
    /\ race.reader.pc = "start"
    /\ race' = IF race.reader.i < race.size
               THEN [race EXCEPT !.reader.seen = Append(@, race.table[race.reader.i + 1].mac),
                                 !.reader.i = @ + 1]
               ELSE [race EXCEPT !.reader.pc = "done"]
    /\ UNCHANGED raceRest

NextRace ==
    \/ RemoveFind
    \/ RemoveShift
    \/ RemoveDecrement
    \/ UpdateFind
    \/ UpdateClaim
    \/ UpdateGrow
    \/ UpdateFields
    \/ ReaderStep

SpecRace == InitRace /\ [][NextRace]_vars

(***************************************************************************)
(* Coordinator: boot.  setup() reads the persisted table count and table,  *)
(* then registers the receive callback.                                    *)
(***************************************************************************)
MaxCount == 255    \* largest value of the uint8_t routing_count

\* a RoutingEntry of zero bytes, as the global array holds before any write
ZeroEntry ==
    [device_mac |-> ZERO_MAC, parent_mac |-> ZERO_MAC, rssi |-> 0,
     last_seen |-> U32(0), status |-> 0]

\* the table an earlier run saved with n devices in it
Persisted(n) ==
    [i \in 1..n |-> [device_mac |-> Device(i), parent_mac |-> Device(i), rssi |-> 0,
                     last_seen |-> U32(0), status |-> 1]]

\* what the memory after routing_table[MAX_ROUTING_ENTRIES - 1] may hold
BeyondTable == {ZeroEntry, [ZeroEntry EXCEPT !.device_mac = MacA, !.status = 1]}

\* the entries routing_table[0 .. routing_table_size - 1] after load_configuration
load_configuration(stored, junk) ==
    IF stored.routing_count > 0 /\ stored.routing_count <= MAX_ROUTING_ENTRIES
    THEN SubSeq(stored.routing_table, 1, stored.routing_count)
    ELSE [i \in 1..stored.routing_count |->
             IF i <= MAX_ROUTING_ENTRIES THEN ZeroEntry ELSE junk]

InitBoot ==
    /\ millis = U32(0)
    /\ routing_table = <<>>
    /\ last_save = U32(0)
    /\ prefs \in {[routing_count |-> n,
                   routing_table |-> Persisted(IF n <= MAX_ROUTING_ENTRIES THEN n
                                               ELSE MAX_ROUTING_ENTRIES)] : n \in 0..MaxCount}
    /\ packets_received = 0
    /\ rx = NoFrame
    /\ handled = <<>>
    /\ sent = <<>>
    /\ acked = <<>>
    /\ seen_log = <<>>
    /\ loop_timers = [last_heartbeat |-> U32(0), last_cleanup |-> U32(0),
                      last_stat_update |-> U32(0), last_send |-> U32(0)]
    /\ table_op = NoOp
    /\ originated = <<>>
    /\ call = NoCall
    /\ net = NoNet
    /\ queue = NoQueue
    /\ race = NoRace
    /\ aead = [phase |-> "idle"]

\* setup(): load_configuration, then setup_wifi, setup_espnow, setup_web_server
Boot(junk) ==
    /\ table_op.name = "none"
    /\ routing_table' = load_configuration(prefs, junk)
    /\ table_op' = [table_op EXCEPT !.name = "setup"]
    /\ UNCHANGED <<millis, last_save, prefs, packets_received, rx, handled, sent, acked,
                   seen_log, loop_timers, sideVars, aead>>

\* coordinator on_espnow_recv(mac, data, len), once setup_espnow registered it
BootRecv(mac, frame) ==
    /\ table_op.name # "none"
    /\ table_op.heard < MaxHeard
    /\ CoordinatorOnRecv(mac, frame)
    /\ table_op' = [table_op EXCEPT !.name = "recv", !.heard = @ + 1]
    /\ UNCHANGED seen_log

NextBoot ==
    \/ \E junk \in BeyondTable : Boot(junk)
    \/ \E src \in {Device(1), MacA} : BootRecv(src, HeartbeatFrom(src))

SpecBoot == InitBoot /\ [][NextBoot]_vars

(***************************************************************************)
(* Properties of the packet engine.                                        *)
(***************************************************************************)
SelfOf(node) == IF node = "coordinator" THEN CoordinatorMac ELSE RepeaterMac

\* the last receive callback got a frame that passed validation
Validated == rx.node # "none" /\ seen_log[Len(seen_log)].valid

ValidatedAt(node) == Validated /\ rx.node = node

\* the message types for which process_mesh_packet calls route_packet when
\* the packet is not for the coordinator
Routed(pkt) ==
    \/ pkt.msg_type \in {MSG_DATA_SENSOR, MSG_CMD_SET, MSG_EVENT_BROADCAST}
    \/ pkt.msg_type = MSG_CMD_GROUP /\ ~requires_local_processing(pkt)

\* C1: a frame re-transmitted for a packet not addressed to the node carries the
\* received ttl minus 1, and a packet received with ttl = 1 is not transmitted
\* onward (no frame with ttl = 0 is put on the link).
C1_ForwardedTtl ==
    Validated /\ ~is_for_me(rx.pkt, SelfOf(rx.node)) =>
        \A i \in 1..Len(sent) :
            /\ sent[i].pkt.ttl = rx.pkt.ttl - 1
            /\ rx.pkt.ttl # 1
            /\ sent[i].pkt.ttl # 0

\* C2: a second frame with the same (src, packet_id) within the 30 s window,
\* not an EVENT_BROADCAST, is delivered to no local handler and produces no
\* link output.
C2_DuplicateSuppressed ==
    Validated /\ rx.pkt.msg_type # MSG_EVENT_BROADCAST =>
        \A i \in 1..(Len(seen_log) - 1) :
            LET first == seen_log[i]
                second == seen_log[Len(seen_log)]
            IN  /\ first.valid
                /\ first.node = second.node
                /\ first.src_mac = second.src_mac
                /\ first.packet_id = second.packet_id
                /\ Gt32(U32(30000), Sub32(second.at, first.at))
                => handled = <<>> /\ sent = <<>>

\* C3: a packet that passes validation has network_id 0xFA23, the current
\* version, ttl >= 1, and a source that is neither broadcast nor all-zero.
C3_ValidatedHeader ==
    Validated =>
        /\ rx.pkt.network_id = MESH_NETWORK_ID
        /\ rx.pkt.version = PROTOCOL_VERSION
        /\ rx.pkt.ttl >= 1
        /\ rx.pkt.src_mac \notin {BROADCAST_MAC, ZERO_MAC}

\* C4: a frame for the coordinator with ENCRYPTED set whose tag does not
\* verify is dropped: no local handler is invoked and no ACK is issued.
C4_AuthFailureDropped ==
    /\ ValidatedAt("coordinator")
    /\ is_for_me(rx.pkt, CoordinatorMac)
    /\ HasFlag(rx.pkt.flags, FLAG_ENCRYPTED)
    /\ ~rx.tag_ok
    => handled = <<>> /\ acked = <<>>

\* the local handler of a message type
HandlerOf(type) ==
    CASE type = MSG_DATA_SENSOR -> "handle_sensor_data"
      [] type \in {MSG_CMD_SET, MSG_CMD_GET} -> "handle_command"
      [] type = MSG_CMD_GROUP -> "handle_group_command"
      [] type = MSG_EVENT_BROADCAST -> "handle_emergency_event"
      [] type = MSG_HEARTBEAT -> "handle_heartbeat"
      [] type = MSG_DISCOVERY -> "handle_discovery"
      [] OTHER -> "none"

\* C8: a validated packet whose dst is the coordinator or the broadcast
\* address reaches the local handler of its message type, a broadcast packet
\* is also re-emitted, and only other destinations skip local handling
\* (stated for DATA_SENSOR packets, the case the sensor node produces).
C8_LocalDelivery ==
    ValidatedAt("coordinator") /\ rx.pkt.msg_type = MSG_DATA_SENSOR =>
        /\ rx.pkt.dst_mac \in {CoordinatorMac, BROADCAST_MAC}
            => handled = <<HandlerOf(rx.pkt.msg_type)>>
        /\ rx.pkt.dst_mac = BROADCAST_MAC /\ rx.pkt.ttl > 1 => sent # <<>>
        /\ rx.pkt.dst_mac \notin {CoordinatorMac, BROADCAST_MAC} => handled = <<>>

C10_BroadcastForwarded ==
    /\ Validated
    /\ rx.pkt.dst_mac = BROADCAST_MAC
    /\ rx.pkt.ttl > 1
    /\ rx.node = "coordinator" => Routed(rx.pkt)
    => Len(sent) = 1 /\ sent[1].to = BROADCAST_MAC

\* C16: on reception of a validated packet an ACK to the packet's src is
\* issued if and only if dst is the node itself, REQUIRE_ACK is set and
\* msg_type is neither ACK nor NACK; an ACK or NACK received with REQUIRE_ACK
\* triggers no ACK.
C16_AckRule ==
    Validated =>
        LET due == /\ is_for_me(rx.pkt, SelfOf(rx.node))
                   /\ HasFlag(rx.pkt.flags, FLAG_REQUIRE_ACK)
                   /\ rx.pkt.msg_type \notin {MSG_ACK, MSG_NACK}
        IN  acked = IF due
                    THEN <<[to |-> rx.pkt.src_mac, packet_id |-> rx.pkt.packet_id]>>
                    ELSE <<>>

\* an earlier frame with the (src, packet_id) of the last one reached the same
\* node less than 30 s before it
DuplicateArrived ==
    \E i \in 1..(Len(seen_log) - 1) :
        LET first == seen_log[i]
            second == seen_log[Len(seen_log)]
        IN  /\ first.valid
            /\ first.node = second.node
            /\ first.src_mac = second.src_mac
            /\ first.packet_id = second.packet_id
            /\ Gt32(U32(30000), Sub32(second.at, first.at))

\* C17: the second copy of an EVENT_BROADCAST packet with the same
\* (src, packet_id), arriving within the dedup window, is delivered to the
\* emergency handler like the first, and is forwarded when its ttl allows it,
\* a copy whose dst is the broadcast address included.
C17_EmergencyNotSuppressed ==
    /\ ValidatedAt("coordinator")
    /\ rx.pkt.msg_type = MSG_EVENT_BROADCAST
    /\ DuplicateArrived
    => /\ handled = <<"handle_emergency_event">>
       /\ rx.pkt.ttl > 1 /\ ~is_for_me(rx.pkt, CoordinatorMac) => sent # <<>>

\* C18: a CMD_GROUP packet with LOCAL_PROCESS set and dst not the node itself
\* is handled by handle_group_command and is also forwarded.
C18_GroupForwarded ==
    /\ ValidatedAt("coordinator")
    /\ rx.pkt.msg_type = MSG_CMD_GROUP
    /\ requires_local_processing(rx.pkt)
    /\ ~is_for_me(rx.pkt, CoordinatorMac)
    /\ rx.pkt.ttl > 1
    => handled = <<"handle_group_command">> /\ sent # <<>>

\* C19: a validated CMD_SET or CMD_GET packet whose dst is the receiving node
\* reaches the command handler exactly once and makes the node emit no frame.
C19_CommandDelivered ==
    /\ Validated
    /\ rx.pkt.msg_type \in {MSG_CMD_SET, MSG_CMD_GET}
    /\ is_for_me(rx.pkt, SelfOf(rx.node))
    => handled = <<"handle_command">> /\ sent = <<>>

\* C20: a received frame shorter than 210 bytes, or with a wrong network_id,
\* a wrong version or ttl = 0, is dropped silently: the routing table is left
\* as it was, no handler runs, no ACK is issued and nothing is transmitted.
C20_SilentDrop ==
    [][/\ seen_log' # seen_log
       /\ \/ rx'.len < 210
          \/ rx'.pkt.network_id # 64035
          \/ rx'.pkt.version # 1
          \/ rx'.pkt.ttl = 0
       => /\ routing_table' = routing_table
          /\ prefs' = prefs
          /\ handled' = <<>>
          /\ acked' = <<>>
          /\ sent' = <<>>]_vars

\* C20 witness: the coordinator, with a device in its table, has dropped a
\* frame whose ttl is 0.
C20_Witness ==
    /\ rx.node = "coordinator"
    /\ rx.pkt.ttl = 0
    /\ ~seen_log[Len(seen_log)].valid
    /\ routing_table # <<>>
    /\ handled = <<>> /\ acked = <<>> /\ sent = <<>>

(***************************************************************************)
(* Properties of the routing table.                                        *)
(***************************************************************************)
\* the last step was a receive callback of the coordinator with a valid frame
JustHeard == table_op.name = "recv" /\ rx.node = "coordinator"

\* C11: after update_routing_table(a, r, h), in any table state, a table
\* holding MAX_ROUTING_ENTRIES other devices included, find_routing_entry(a)
\* returns an entry with rssi = r and last_seen = the current time, and with
\* parent h when h differs from a.
C11_ObservedEntry ==
    JustHeard =>
        LET found == find_routing_entry(routing_table, rx.pkt.src_mac)
            entry == routing_table[found]
        IN  /\ found # 0
            /\ entry.rssi = 0
            /\ entry.last_seen = Div32(millis, 1000)
            /\ rx.mac # rx.pkt.src_mac => entry.parent_mac = rx.mac

\* C12: from the empty table on, routing_table_size never exceeds
\* MAX_ROUTING_ENTRIES, so that no entry is written at an index >= 100, and
\* hearing a new device while the table is full leaves every entry and
\* routing_table_size as they were.
C12_Capacity ==
    [][/\ Len(routing_table) <= MAX_ROUTING_ENTRIES
       /\ Len(routing_table') <= MAX_ROUTING_ENTRIES
       /\ /\ table_op'.name = "recv"
          /\ Len(routing_table) = MAX_ROUTING_ENTRIES
          /\ find_routing_entry(routing_table, rx'.pkt.src_mac) = 0
          => routing_table' = routing_table]_vars

\* C12 witness: a device that is not in the full table has just been heard.
C12_Witness ==
    /\ JustHeard
    /\ Len(routing_table) = MAX_ROUTING_ENTRIES
    /\ find_routing_entry(routing_table, rx.pkt.src_mac) = 0

\* C13: from the empty table on, with the table operations run one at a time,
\* no two entries of routing_table[0 .. routing_table_size-1] have the same
\* device_mac.
C13_UniqueDevice ==
    Cardinality({routing_table[i].device_mac : i \in 1..Len(routing_table)})
        = Len(routing_table)

\* C13 witness: a device already in the table has been heard again after a
\* sweep removed entries.
C13_Witness ==
    /\ JustHeard
    /\ table_op.heard = 2
    /\ loop_timers.last_cleanup # U32(0)
    /\ Len(routing_table) = 1
    /\ routing_table[1].device_mac = rx.pkt.src_mac

\* now - last_seen of an entry, in seconds, at clock ms
AgeOf(entry, ms) == Sub32(Div32(ms, 1000), entry.last_seen)

\* C14: in every state each routing entry has status = 1 (online) if and only
\* if now - last_seen < 300 s; an entry last seen 300 s ago or more is not
\* marked online.
C14_OnlineStatus ==
    \A i \in 1..Len(routing_table) :
        routing_table[i].status = 1
            <=> Gt32(U32(300), AgeOf(routing_table[i], millis))

\* C15: the sweep of loop() keeps an entry with 300 s <= now - last_seen < 1 h
\* in the table and marks it offline; it removes only entries older than 1 h.
C15_SweepKeepsStale ==
    [][table_op'.name = "cleanup" =>
          \A i \in 1..Len(routing_table) :
              Gt32(U32(3600), AgeOf(routing_table[i], millis)) =>
                  LET found == find_routing_entry(routing_table',
                                                  routing_table[i].device_mac)
                  IN  /\ found # 0
                      /\ ~Gt32(U32(300), AgeOf(routing_table[i], millis))
                            => routing_table'[found].status # 1]_vars

\* C35: after any sequence of received frames no entry of the coordinator's
\* routing table has the broadcast or the all-zero address as its device, so
\* that find_routing_entry(broadcast) finds nothing.
C35_NoReservedDevice ==
    /\ \A i \in 1..Len(routing_table) :
           routing_table[i].device_mac \notin {BROADCAST_MAC, ZERO_MAC}
    /\ find_routing_entry(routing_table, BROADCAST_MAC) = 0

\* the entries of the table with now - last_seen <= 300 s at clock ms, in
\* their order
Fresh(table, ms) ==
    SelectSeq(table, LAMBDA entry : ~Gt32(AgeOf(entry, ms), U32(300)))

\* C36: after cleanup_old_entries() the table holds exactly the entries that
\* had now - last_seen <= 300 s before the call, in their order and with their
\* fields unchanged, whichever entries are stale; remove_routing_entry(mac)
\* for a mac that is not in the table changes nothing.
C36_SweepResult ==
    /\ [][table_op'.name = "cleanup" => routing_table' = Fresh(routing_table, millis)]_vars
    /\ [](\A mac \in {Device(1), Device(MAX_ROUTING_ENTRIES + 1), BROADCAST_MAC} :
              find_routing_entry(routing_table, mac) = 0
                  => remove_routing_entry(routing_table, mac) = routing_table)

\* C36 witness: a sweep has removed the 98 adjacent stale entries between the
\* first entry and the last one, which were heard again.
C36_Witness ==
    /\ table_op.name = "cleanup"
    /\ packets_received = MAX_ROUTING_ENTRIES + 1
    /\ Len(routing_table) = 2
    /\ routing_table[1].device_mac = Device(1)
    /\ find_routing_entry(routing_table, Device(2)) = 0

(***************************************************************************)
(* Properties of originated packets.                                       *)
(***************************************************************************)
OriginMac(node) == IF node = "coordinator" THEN CoordinatorMac ELSE MacA

\* C21: of two packets originated by the same node the later one has the
\* larger packet_id, also when both are originated in the same millisecond
\* and when the 32-bit clock wraps between them; no (src, packet_id) repeats.
C21_PacketIdsIncrease ==
    \A i, j \in 1..Len(originated) :
        i < j /\ originated[i].node = originated[j].node =>
            Gt32(originated[j].pkt.packet_id, originated[i].pkt.packet_id)

\* C22: every packet a node originates has network_id 0xFA23, the protocol
\* version, ttl = DEFAULT_TTL, and src and last_hop equal to the node's own
\* address, and passes validate_packet at a receiver.
C22_OriginatedHeader ==
    \A i \in 1..Len(originated) :
        LET pkt == originated[i].pkt
        IN  /\ pkt.network_id = MESH_NETWORK_ID
            /\ pkt.version = PROTOCOL_VERSION
            /\ pkt.ttl = DEFAULT_TTL
            /\ pkt.src_mac = OriginMac(originated[i].node)
            /\ pkt.last_hop_mac = OriginMac(originated[i].node)
            /\ validate_packet(pkt, originated[i].len)

\* C22 witness: a heartbeat, a discovery packet and a sensor reading have
\* been originated.
C22_Witness ==
    \A type \in {MSG_HEARTBEAT, MSG_DISCOVERY, MSG_DATA_SENSOR} :
        \E i \in 1..Len(originated) : originated[i].pkt.msg_type = type

(***************************************************************************)
(* Properties of the coordinator's timers.                                 *)
(***************************************************************************)
Heartbeats == SelectSeq(originated, LAMBDA o : o.pkt.msg_type = MSG_HEARTBEAT)

\* loop() has just sent a heartbeat / run the sweep
HeartbeatSent == table_op.name \in {"loop", "cleanup"} /\ Len(sent) > 0
SweepRun == table_op.name = "cleanup"

\* a step of loop() that sends a heartbeat or runs the sweep comes more than
\* 60 000 ms of clock time after the one before
TimersSeparate ==
    /\ loop_timers'.last_heartbeat # loop_timers.last_heartbeat =>
          /\ Gt32(Sub32(millis, loop_timers.last_heartbeat), U32(60000))
          /\ Len(sent') = 1 /\ sent'[1].pkt.msg_type = MSG_HEARTBEAT
    /\ loop_timers'.last_cleanup # loop_timers.last_cleanup =>
          Gt32(Sub32(millis, loop_timers.last_cleanup), U32(60000))
    /\ \A i \in 1..(Len(Heartbeats') - 1) :
          ~Gt32(U32(60000), Sub32(Heartbeats'[i + 1].pkt.packet_id,
                                  Heartbeats'[i].pkt.packet_id))

\* C31: while loop() keeps being called, two heartbeats, and two sweeps, are
\* at least 60 000 ms of clock time apart, and once more than 60 000 ms have
\* passed since the last one the next heartbeat is sent and the next sweep
\* run - also when the 32-bit clock wraps in between.
C31_Periodic ==
    /\ [][TimersSeparate]_vars
    /\ Due(loop_timers.last_heartbeat, HEARTBEAT_INTERVAL) ~> HeartbeatSent
    /\ Due(loop_timers.last_cleanup, 60000) ~> SweepRun

\* C31 witness: two heartbeats were sent, the clock having wrapped between them.
C31_Witness ==
    /\ Len(Heartbeats) = 2
    /\ Gt32(Heartbeats[1].pkt.packet_id, Heartbeats[2].pkt.packet_id)
    /\ SweepRun

\* C32: a repeater that has run for more than 30 s has originated a
\* heartbeat: no 30 s window of its operation goes without one.
C32_RepeaterHeartbeat ==
    Gt32(millis, U32(REPEATER_HEARTBEAT_INTERVAL)) =>
        \E frame \in {originated[i] : i \in 1..Len(originated)} \cup
                     {[node |-> "repeater", pkt |-> sent[i].pkt] : i \in 1..Len(sent)} :
            /\ frame.node = "repeater"
            /\ frame.pkt.msg_type = MSG_HEARTBEAT
            /\ frame.pkt.src_mac = RepeaterMac

(***************************************************************************)
(* Properties of acknowledged delivery.                                    *)
(***************************************************************************)
\* the i-th originated packet asks for an acknowledgement
AwaitsAck(i) ==
    i <= Len(originated) /\ requires_ack(originated[i].pkt)

\* an ACK frame for the i-th originated packet is on its way to the originator
AckOnAir(i) ==
    \E k \in 1..Len(sent) :
        /\ sent[k].pkt.msg_type = MSG_ACK
        /\ sent[k].pkt.dst_mac = originated[i].pkt.src_mac
        /\ sent[k].pkt.packet_id = originated[i].pkt.packet_id

\* the originator has sent the i-th packet a second time
Retransmitted(i) ==
    \E j \in (i + 1)..Len(originated) :
        /\ originated[j].node = originated[i].node
        /\ originated[j].pkt.packet_id = originated[i].pkt.packet_id

RelayLowersTtl ==
    net.tx > 0 =>
        \A y \in BagToSet(net'.air (-) net.air) :
            \E x \in BagToSet(net.air (-) net'.air) : y.pkt.ttl < x.pkt.ttl

\* C34: with every frame received by all the nodes it reaches and no
\* duplicate suppression, one originated packet causes finitely many
\* transmissions: each relay lowers the ttl, a frame with ttl 0 is not
\* relayed, and in the end no copy of the packet is on the air any more.
C34_FloodEnds ==
    /\ [][RelayLowersTtl]_vars
    /\ [](\A x \in BagToSet(net.air) : x.pkt.ttl = 0 =>
              RepeaterSends(x.rcv, Frame(x.len, x.pkt, TRUE)) = <<>>)
    /\ (net.tx > 0) ~> [](net.air = EmptyBag)

\* the flood of a packet that the repeaters and the coordinator relayed has
\* ended; the last frame was the coordinator's copy with ttl 0, which the
\* repeater dropped
C34_Witness ==
    /\ net.tx > 2 * MaxTtl
    /\ net.air = EmptyBag
    /\ rx.node = "repeater" /\ rx.mac = CoordinatorMac /\ rx.pkt.ttl = 0

(***************************************************************************)
(* Properties of entry age across the clock wrap.                          *)
(***************************************************************************)
\* the coordinator heard the device mac less than 300 s of clock time ago
HeardLately(mac) ==
    \E k \in 1..Len(seen_log) :
        /\ seen_log[k].node = "coordinator" /\ seen_log[k].valid
        /\ seen_log[k].src_mac = mac
        /\ Gt32(U32(300000), Sub32(millis, seen_log[k].at))

\* C37: a device observed less than 300 s ago is reported online and is not
\* evicted by the sweep, also when the 32-bit millisecond clock has wrapped
\* between the observation and the check.
C37_AgeAcrossWrap ==
    \A k \in 1..Len(seen_log) :
        HeardLately(seen_log[k].src_mac) =>
            LET found == find_routing_entry(routing_table, seen_log[k].src_mac)
            IN  /\ found # 0
                /\ handle_api_devices(routing_table, found, millis)

(***************************************************************************)
(* Properties of the circular queue, one call at a time.                   *)
(***************************************************************************)
\* the call op has just returned
Returned(op) == queue' # queue /\ queue'.last.op = op

\* the items in the queue: pushed, and neither popped nor cleared
Waiting == queue.pushed - queue.gone

\* C38: the queue is FIFO: a successful pop returns the oldest item that was
\* pushed and not yet popped; peek returns the item the next pop will return
\* and changes nothing; push on a full queue and pop on an empty queue return
\* false and leave the queue as it was.
C38_Fifo ==
    [][/\ Returned("pop") =>
              IF Waiting > 0
              THEN queue'.last.ok /\ queue'.last.item = queue.gone + 1
              ELSE ~queue'.last.ok /\ queue'.q = queue.q
       /\ Returned("peek") =>
              /\ queue'.q = queue.q
              /\ queue'.last.ok = queue_pop(queue.q).ok
              /\ queue'.last.item = queue_pop(queue.q).item
       /\ Returned("push") =>
              IF Waiting = queue.q.capacity
              THEN ~queue'.last.ok /\ queue'.q = queue.q
              ELSE queue'.last.ok]_vars

\* C38 witness: with capacity 2 the fourth item has been popped, after the
\* indices wrapped and a push on the full queue was refused.
C38_Witness ==
    /\ queue.q.capacity = 2
    /\ queue.last = [op |-> "pop", ok |-> TRUE, item |-> 4]
    /\ queue.q.count = 1

\* C39: after queue_init with capacity >= 1 and any calls of push, pop, peek
\* and clear: 0 <= count <= capacity, head < capacity, tail < capacity,
\* tail = (head + count) mod capacity, full <=> count = capacity,
\* queue_is_empty <=> count = 0, and queue_count is the number of items pushed
\* and not yet popped.
C39_QueueShape ==
    LET q == queue.q
    IN  /\ 0 <= q.count /\ q.count <= q.capacity
        /\ q.head < q.capacity /\ q.tail < q.capacity
        /\ q.tail = (q.head + q.count) % q.capacity
        /\ queue_is_full(q) <=> q.count = q.capacity
        /\ queue_is_empty(q) <=> q.count = 0
        /\ queue_count(q) = Waiting

\* C39 witness: a queue of capacity 3 is full with head past the start, after
\* a clear.
C39_Witness ==
    /\ queue.q.capacity = 3
    /\ queue.q.full
    /\ queue.q.head = 1
    /\ queue.gone > 1
    /\ queue.q.buffer[1] = queue.pushed

(***************************************************************************)
(* Properties of the circular queue between two tasks.                     *)
(***************************************************************************)
\* C40: with one producer and one consumer whose reads and writes of head,
\* tail, count and full interleave, no accepted item is lost and none is
\* delivered twice: the items come out in the order they were accepted, each
\* once; and whenever no call is under way count is the number of items
\* waiting and full holds exactly when count = capacity.
C40_SpscSafe ==
    /\ \A i \in 1..Len(queue.delivered) : queue.delivered[i] = i
    /\ Len(queue.delivered) <= queue.pushed
    /\ queue.producer.pc = "idle" /\ queue.consumer.pc = "idle" =>
          /\ queue.q.count = queue.pushed - Len(queue.delivered)
          /\ queue.q.full <=> queue.q.count = queue.q.capacity

(***************************************************************************)
(* Properties of the routing table under concurrent access.                *)
(***************************************************************************)
Underway(context) == context.pc \notin {"start", "done"}

NoRepeat(seq) == \A i, j \in 1..Len(seq) : i # j => seq[i] # seq[j]

RaceMacs == [i \in 1..race.size |-> race.table[i].mac]

\* C29: the callback's update of the table and loop()'s removal from it
\* never interleave, and a reader sees an atomic copy: when both are done
\* the table holds each device once - the devices it held, without the stale
\* one and with the heard one - in routing_table_size entries, and a finished
\* read lists no device twice and misses no device that stayed in the table.
C29_SingleContext ==
    /\ race.pc = "run" => ~(Underway(race.remove) /\ Underway(race.update))
    /\ race.pc = "run" /\ race.remove.pc = "done" /\ race.update.pc = "done" =>
          /\ NoRepeat(RaceMacs)
          /\ (1..RaceDevices) \ {race.stale} \subseteq {RaceMacs[i] : i \in 1..race.size}
          /\ {RaceMacs[i] : i \in 1..race.size} \subseteq (1..RaceDevices) \cup {race.heard}
          /\ race.heard # race.stale => \E i \in 1..race.size : RaceMacs[i] = race.heard
    /\ race.pc = "run" /\ race.reader.pc = "done" =>
          /\ NoRepeat(race.reader.seen)
          /\ (1..RaceDevices) \ {race.stale}
                 \subseteq {race.reader.seen[i] : i \in 1..Len(race.reader.seen)}

(***************************************************************************)
(* Properties of the boot.                                                 *)
(***************************************************************************)
\* C30: with a persisted routing_count of 101..255 the coordinator does not
\* start the mesh engine: no packet is ever processed while
\* routing_table_size exceeds MAX_ROUTING_ENTRIES.
C30_CorruptCountRefused ==
    packets_received > 0 => Len(routing_table) <= MAX_ROUTING_ENTRIES

C24_SessionKeySeparation ==
    call.fn = "derive_session_key" /\ call.out[1] # <<>> /\ call.out[2] # <<>> =>
        (call.out[1] = call.out[2]) <=> (call.args[1].session_id = call.args[2].session_id)

\* C27: two comparisons of the same length take the same steps whatever the
\* buffers hold: len iterations reading a[i] and b[i] in order, then the return.
C27_SameSteps ==
    call.fn \in {"constant_time_compare", "secure_compare"} =>
        /\ call.out[1].steps = call.out[2].steps
        /\ \A k \in 1..2 :
              LET steps == call.out[k].steps
                  skip == IF call.fn = "secure_compare" THEN 1 ELSE 0
              IN  /\ Len(steps) = skip + 2 * call.len + 1
                  /\ \A i \in 0..(call.len - 1) :
                        /\ steps[skip + 2 * i + 1] = <<"a", i>>
                        /\ steps[skip + 2 * i + 2] = <<"b", i>>

\* C27 witness: one comparison of equal buffers and one of buffers that
\* differ in their first byte, both of the full length.
C27_Witness ==
    /\ call.fn \in {"constant_time_compare", "secure_compare"}
    /\ call.len = MaxCompareLen
    /\ call.out[1].equal
    /\ call.args[2].a[1] # call.args[2].b[1]

(***************************************************************************)
(* Properties of the ChaCha20-Poly1305 layer.                              *)
(***************************************************************************)
\* the ChaCha20 block of the exchange's key and nonce at a block counter
KeystreamBlock(counter) ==
    chacha20_block(chacha20_init_state(SessionKey, PacketNonce, U32(counter)))

\* data zero-padded to the next multiple of 16 bytes
Pad16(data) == data \o [i \in 1..((16 - (Len(data) % 16)) % 16) |-> 0]

\* C25: the Poly1305 key is taken from the block of counter 0, and the i-th
\* 64-byte block of the data is XORed with the block of counter i, so no
\* block serves twice and the Poly1305 key block never encrypts data.
C25_KeystreamBlocks ==
    /\ aead.phase \in {"enc_init", "dec_init"} =>
          LET keyed == poly1305_init(aead.ctx.auth_ctx, SubSeq(KeystreamBlock(0), 1, 32))
          IN  aead.ctx.auth_ctx.r = keyed.r /\ aead.ctx.auth_ctx.pad = keyed.pad
    /\ aead.phase = "enc_done" =>
          \A i \in 1..Len(aead.plaintext) :
              aead.ciphertext[i] =
                  Xor8(aead.plaintext[i], KeystreamBlock(1 + ((i - 1) \div 64))[((i - 1) % 64) + 1])

\* C26: Poly1305 absorbs the AAD, zeroes to the next 16-byte boundary, the
\* ciphertext, zeroes to the next 16-byte boundary, then the AAD length and
\* the ciphertext length in bytes as two little-endian 64-bit numbers: the
\* tag is the one Poly1305 gives for that byte sequence.
C26_AbsorbedSequence ==
    aead.phase = "enc_done" =>
        LET keyed == chacha20_poly1305_init(aead.ctx, aead.ctx.key, aead.ctx.nonce).auth_ctx
            claimed == Pad16(aead.aad) \o Pad16(aead.ciphertext)
                       \o Store64(To64(U32(Len(aead.aad))))
                       \o Store64(To64(U32(Len(aead.ciphertext))))
        IN  poly1305_final(poly1305_blocks(keyed, claimed, Len(claimed)),
                           aead.wide_shift).tag = aead.tag

\* C28: when chacha20_poly1305_decrypt returns, with either result, its
\* verify_ctx and computed_tag hold only zero bytes, and when
\* mesh_encrypt_packet or mesh_decrypt_packet returns its ctx does.
C28_LocalsWiped ==
    /\ aead.phase \in {"dec_done", "finished"} =>
          /\ aead.locals.verify_ctx = secure_wipe
          /\ aead.locals.computed_tag = [i \in 1..POLY1305_TAG_SIZE |-> 0]
    /\ aead.phase \in {"on_air", "dec_start", "finished"} => aead.ctx = secure_wipe

\* C5: a frame with one bit flipped in the ciphertext, the tag or the AAD,
\* trailing partial block included, is rejected: decryption returns false.
C5_TamperDetected ==
    aead.phase = "dec_done" /\ aead.tamper.field # "none" => aead.result = FALSE

\* C6: when the tag computed by chacha20_poly1305_decrypt differs from the tag
\* given, the call returns false, and a call that returns false has written
\* no byte of the plaintext buffer and has left the context as it was;
\* mesh_decrypt_packet then returns that result over the same buffer.
C6_FailedDecryptLeavesNoTrace ==
    [][/\ AadDone("dec") /\ aead'.phase = "dec_done" =>
            /\ AuthTag(aead.ctx, aead.ciphertext, Len(aead.ciphertext), aead.wide_shift).tag
                   # aead.tag => aead'.result = FALSE
            /\ aead'.result = FALSE => aead'.output = aead.output /\ aead'.ctx = aead.ctx
       /\ aead.phase = "dec_done" /\ aead'.phase = "finished" =>
            aead'.result = aead.result /\ aead'.output = aead.output]_vars

\* C6 witness: a decryption of a frame with a flipped tag bit has returned
\* false over a non-empty plaintext buffer.
C6_Witness ==
    /\ aead.phase = "dec_done"
    /\ aead.result = FALSE
    /\ aead.tamper.field = "tag"
    /\ Len(aead.output) > 0

\* C7: an untampered frame decrypts to the plaintext that was encrypted, for
\* every length and whatever the memory of the two contexts held before.
C7_RoundTrip ==
    aead.phase = "dec_done" /\ aead.tamper.field = "none" =>
        aead.result = TRUE /\ aead.output = aead.plaintext

====
